---- MODULE Spec2Model ----
(***************************************************************************)
(* LayerScan: the audit engine (src/src/core/auditor.ts) and the fix       *)
(* engine (src/src/core/fixers.ts) as a state machine.                     *)
(*                                                                         *)
(* One audit call is followed step by step: getEnabledRules, the recursive *)
(* flattening of the roots (one step per traverse call and per return),    *)
(* buildContext for every flattened node, one step per rule.check, and the *)
(* return of the AuditResult.  The fix engine (applyFix, applyAllFixes)    *)
(* and the undo log act on the issues of the returned result.              *)
(***************************************************************************)
EXTENDS Integers, Sequences, FiniteSets, Bags, TLC

VARIABLES
    roots,          \* auditNodes argument `nodes`: the root node list
    settings,       \* auditNodes argument `settings` (enabledRules, disabledRules)
    host,           \* per node id: what framer.getChildren(id) does
    embedded,       \* per node: the node object's own `children` field
    behaviour,      \* per (rule id, node): what rule.check does on that node
    registry,       \* rules/index.ts:24  allRules, in the order the module lists them
    pc,             \* position of the auditNodes call
    enabledRules,   \* auditor.ts:24  const enabledRules
    flat,           \* auditor.ts:65  result / auditor.ts:27 allNodesFlat
    via,            \* history: for each entry of flat, the position in flat of the node whose
                    \* traverse call discovered it (0 for a root)
    stack,          \* call stack of traverse: <<[node, pos, rest]>>, innermost call last
    rootIdx,        \* auditor.ts:88  position of the for loop over the roots
    nodeIdx,        \* auditor.ts:29  position of the for loop over allNodesFlat
    ruleIdx,        \* auditor.ts:32  position of the for loop over enabledRules
    context,        \* auditor.ts:30  const context
    issues,         \* auditor.ts:19
    errors,         \* auditor.ts:20
    seenIssues,     \* auditor.ts:21
    checked,        \* history: the (flat position, rule id) pairs whose check was called
    checkLog,       \* history: <<"start" | "settle", flat position, rule position>> per check
    result,         \* the AuditResult the call resolved with
    applyCalls,     \* history: bag of issues applyFix was called on
    thunkRuns,      \* history: bag of issues whose fixAction was invoked
    undoStack,      \* fixers.ts:18
    stored,         \* history: the entries storeUndo was called with since the last clear
    lastUndo,       \* what the latest getLastUndo call returned (until the next undo-log call)
    fixCall,        \* a direct applyFix call in flight
    batch,          \* an applyAllFixes call in flight
    apiCalls,       \* number of fix-engine calls and undo-log writes made so far
    thr,            \* perf.ts:32-55  one throttled function: its closure, timer and clock
    probe           \* a helper or rule check applied on its own: its arguments and its result

vars == <<roots, settings, host, embedded, behaviour, registry, pc, enabledRules, flat,
          via, stack, rootIdx, nodeIdx, ruleIdx, context, issues, errors, seenIssues,
          checked, checkLog, result, applyCalls, thunkRuns, undoStack, stored, lastUndo,
          fixCall, batch, apiCalls, thr, probe>>

inputVars == <<roots, settings, host, embedded, behaviour, registry>>
auditVars == <<pc, enabledRules, flat, via, stack, rootIdx, nodeIdx, ruleIdx,
               context, issues, errors, seenIssues, checked, checkLog, result>>
utilVars  == <<thr, probe>>
fixVars   == <<applyCalls, thunkRuns, undoStack, stored, lastUndo, fixCall, batch, apiCalls>>

----------------------------------------------------------------------------
(* Bounds of the model *)

MaxNodes == 3       \* node ids are 1..MaxNodes
MaxKids == 2        \* longest children list
MaxRoots == 2       \* longest root list
MaxFlat == 6        \* traverse calls followed per audit (a cyclic tree never ends)

Nodes == 1..MaxNodes
NoNode == 0         \* `undefined` where a node is expected

----------------------------------------------------------------------------
(* The rule registry: src/src/core/rules/index.ts:24-46.  Each entry keeps  *)
(* the rule's id and enabledByDefault flag, and `yields`: the kinds of      *)
(* issue its check can return ("fixable": canAutoFix with a fixAction,      *)
(* "manual": canAutoFix false and no fixAction, "fixableWidth": the second  *)
(* fixable issue of overflowing-text, whose id is qualified with "width").  *)

allRules ==
    << [id |-> "fixed-inside-fill",       enabledByDefault |-> TRUE,  yields |-> {"fixable"}],
       [id |-> "absolute-in-auto-layout", enabledByDefault |-> TRUE,  yields |-> {"fixable"}],
       [id |-> "negative-gap",            enabledByDefault |-> TRUE,  yields |-> {"fixable", "manual"}],
       [id |-> "unnecessary-nesting",     enabledByDefault |-> TRUE,  yields |-> {"fixable"}],
       [id |-> "overflowing-text",        enabledByDefault |-> TRUE,  yields |-> {"fixable", "fixableWidth"}],
       [id |-> "should-auto-layout",      enabledByDefault |-> TRUE,  yields |-> {"fixable"}],
       [id |-> "inconsistent-spacing",    enabledByDefault |-> TRUE,  yields |-> {"fixable"}],
       [id |-> "mixed-radii",             enabledByDefault |-> TRUE,  yields |-> {"fixable"}],
       [id |-> "low-contrast-text",       enabledByDefault |-> FALSE, yields |-> {"manual"}],
       [id |-> "small-tap-targets",       enabledByDefault |-> TRUE,  yields |-> {"fixable"}],
       [id |-> "oversized-image",         enabledByDefault |-> TRUE,  yields |-> {"manual"}],
       [id |-> "component-candidate",     enabledByDefault |-> TRUE,  yields |-> {"manual"}] >>

RuleIds == {allRules[i].id : i \in DOMAIN allRules}

Range(s) == {s[i] : i \in DOMAIN s}

\* auditor.ts:128-141, the filter callback of getEnabledRules
RuleEnabled_AllowlistWins(rule, s) ==
    IF Len(s.enabledRules) > 0
    THEN rule.id \in Range(s.enabledRules)
    ELSE rule.id \notin Range(s.disabledRules) /\ rule.enabledByDefault

RuleEnabled(rule, s) ==
    IF rule.id \in Range(s.disabledRules) THEN FALSE
    ELSE IF Len(s.enabledRules) > 0 THEN rule.id \in Range(s.enabledRules)
    ELSE rule.enabledByDefault

\* auditor.ts:127-142
getEnabledRules(s) ==
    LET Keep(rule) == RuleEnabled(rule, s) IN SelectSeq(registry, Keep)

----------------------------------------------------------------------------
(* Nodes and the tree provider *)

\* nodeHelpers.ts:185-190
getChildren(node) ==
    IF embedded[node].present THEN embedded[node].kids ELSE <<>>

\* auditor.ts:71-85: the children a traverse call goes on to visit.  The
\* provider's array when the call succeeds; nothing when it answers with
\* something that is not an array; the local children when it throws.
TraversalChildren_NoFallback(node) ==
    IF host[node].status = "ok" THEN host[node].kids ELSE <<>>

TraversalChildren(node) ==
    CASE host[node].status = "ok"       -> host[node].kids
      [] host[node].status = "notArray" -> <<>>
      [] host[node].status = "throws"   -> getChildren(node)

\* auditor.ts:98-122.  parent: the first node of allNodes whose local children
\* hold a node with this id; siblings: that parent's local children without it.
\* (context.allNodes and context.settings are the call's own arguments.)
BuildContext_LastParent(node, allNodes) ==
    LET owners == {i \in DOMAIN allNodes : node \in Range(getChildren(allNodes[i]))}
    IN  IF owners = {} THEN [parent |-> NoNode, siblings |-> <<>>]
        ELSE LET p == allNodes[CHOOSE i \in owners : \A j \in owners : j <= i]
             IN  [parent |-> p, siblings |-> getChildren(p)]

BuildContext(node, allNodes) ==
    LET owners == {i \in DOMAIN allNodes : node \in Range(getChildren(allNodes[i]))}
    IN  IF owners = {} THEN [parent |-> NoNode, siblings |-> <<>>]
        ELSE LET p == allNodes[CHOOSE i \in owners : \A j \in owners : i <= j]
                 NotSelf(child) == child # node
             IN  [parent |-> p, siblings |-> SelectSeq(getChildren(p), NotSelf)]

----------------------------------------------------------------------------
(* Rules and issues *)

\* What rule.check(node, context) does: "null" (not applicable), "fixable" or
\* "manual" or "fixableWidth" (an issue), "throw".  The table `behaviour` is the input that
\* fixes it for the rules it lists; every other rule finds nothing.
CheckOutcome(ruleId, node) ==
    IF <<ruleId, node>> \in DOMAIN behaviour THEN behaviour[<<ruleId, node>>] ELSE "null"

\* Strings are kept as the sequence of their parts between dashes: "a-b" is
\* <<"a", "b">>, and joining two strings with a dash is \o.
\* The ids of the rules (rules/index.ts:24-46 and each rule's `id`)
Tokens(ruleId) ==
    CASE ruleId = "fixed-inside-fill"       -> <<"fixed", "inside", "fill">>
      [] ruleId = "absolute-in-auto-layout" -> <<"absolute", "in", "auto", "layout">>
      [] ruleId = "negative-gap"            -> <<"negative", "gap">>
      [] ruleId = "unnecessary-nesting"     -> <<"unnecessary", "nesting">>
      [] ruleId = "overflowing-text"        -> <<"overflowing", "text">>
      [] ruleId = "should-auto-layout"      -> <<"should", "auto", "layout">>
      [] ruleId = "inconsistent-spacing"    -> <<"inconsistent", "spacing">>
      [] ruleId = "mixed-radii"             -> <<"mixed", "radii">>
      [] ruleId = "low-contrast-text"       -> <<"low", "contrast", "text">>
      [] ruleId = "small-tap-targets"       -> <<"small", "tap", "targets">>
      [] ruleId = "oversized-image"         -> <<"oversized", "image">>
      [] ruleId = "component-candidate"     -> <<"component", "candidate">>
      [] OTHER                              -> <<ruleId>>

\* node.id of the node objects: strings the host chooses
NodeId(node) ==
    CASE node = 1 -> <<"a">>
      [] node = 2 -> <<"width", "a">>
      [] node = 3 -> <<"b">>
      [] OTHER    -> <<"n">>

\* The id of the issue a check builds: `${this.id}-${node.id}`, e.g.
\* fixedInsideFill.ts:38, and `${this.id}-width-${node.id}` for the width
\* issue of overflowing-text (overflowingText.ts:60)
IssueId_NodeOnly(ruleId, kind, node) == NodeId(node)

IssueId(ruleId, kind, node) ==
    Tokens(ruleId) \o (IF kind = "fixableWidth" THEN <<"width">> ELSE <<>>) \o NodeId(node)

\* The severity the rule gives its issue of that kind (inconsistent-spacing:
\* "warning" instead when the gaps vary widely, inconsistentSpacing.ts:77)
Severity(ruleId, kind) ==
    CASE ruleId \in {"fixed-inside-fill", "small-tap-targets"} -> "warning"
      [] ruleId = "absolute-in-auto-layout" -> "error"
      [] ruleId = "negative-gap" -> IF kind = "fixable" THEN "warning" ELSE "info"
      [] ruleId = "overflowing-text" -> IF kind = "fixable" THEN "error" ELSE "warning"
      [] OTHER -> "info"

\* The issue object a check returns, e.g. fixedInsideFill.ts:37-56: a
\* fixAction exactly for the fixable kinds.
\* `at` is the object's identity: the check call that created it.
MakeIssue_FlagWithoutThunk(ruleId, node, kind, at) ==
    [id |-> IssueId(ruleId, kind, node), ruleId |-> ruleId, node |-> node,
     severity |-> Severity(ruleId, kind),
     canAutoFix |-> (kind \in {"fixable", "fixableWidth"}), hasFixAction |-> FALSE,
     at |-> at]

MakeIssue(ruleId, node, kind, at) ==
    [id |-> IssueId(ruleId, kind, node), ruleId |-> ruleId, node |-> node,
     severity |-> Severity(ruleId, kind),
     canAutoFix |-> (kind \in {"fixable", "fixableWidth"}),
     hasFixAction |-> (kind \in {"fixable", "fixableWidth"}),
     at |-> at]

\* fixers.ts:25 and fixers.ts:46: the issue can be fixed automatically
Fixable_FlagOnly(issue) == issue.canAutoFix

Fixable(issue) == issue.canAutoFix /\ issue.hasFixAction

\* fixers.ts:31: issue.fixAction() is invoked
RunThunk(runs, issue) == runs (+) SetToBag({issue})

\* auditor.ts:36-42
IssuesAfter_NoDedup(iss, seen, issue) == Append(iss, issue)

IssuesAfter(iss, seen, issue) ==
    IF issue.id \notin seen THEN Append(iss, issue) ELSE iss

\* auditor.ts:44, the message: it names rule.id and node.id
ErrorMsg(ruleId, node) == [rule |-> ruleId, node |-> node]

\* auditor.ts:43-47: where the call is after a check threw, and its error list
AfterThrow_Rethrow(errs, ruleId, node) == [pc |-> "rejected", errors |-> errs]

AfterThrow(errs, ruleId, node) ==
    [pc |-> "rule", errors |-> Append(errs, ErrorMsg(ruleId, node))]

\* auditor.ts:57
ErrorsField_Always(errs) == [present |-> TRUE, list |-> errs]

ErrorsField(errs) ==
    IF Len(errs) > 0 THEN [present |-> TRUE, list |-> errs]
    ELSE [present |-> FALSE, list |-> <<>>]

NoResult == [issues |-> <<>>, nodesAudited |-> 0, errors |-> ErrorsField(<<>>)]

----------------------------------------------------------------------------
(* auditNodes, step by step *)

\* auditor.ts:14-27: the call begins; enabled rules are computed, flattening starts
AuditStart ==
    /\ pc = "idle"
    /\ pc' = "flatten"
    /\ enabledRules' = getEnabledRules(settings)
    /\ issues' = <<>> /\ errors' = <<>> /\ seenIssues' = {}
    /\ flat' = <<>> /\ via' = <<>> /\ stack' = <<>> /\ rootIdx' = 1
    /\ UNCHANGED <<nodeIdx, ruleIdx, context, checked, checkLog, result>>
    /\ UNCHANGED inputVars /\ UNCHANGED utilVars /\ UNCHANGED fixVars

\* auditor.ts:67-74 / 79-81: a call traverse(node) pushes the node and obtains
\* the children it will visit.  `from` is the position in flat of the node whose
\* call makes this one (0 for a root); a frame keeps its node's position as pos.
Enter_Reversed(stk, node, from) ==
    /\ Len(flat) < MaxFlat
    /\ flat' = Append(flat, node)
    /\ via' = Append(via, from)
    /\ stack' = Append(stk, [node |-> node, pos |-> Len(flat) + 1,
                             rest |-> [i \in DOMAIN TraversalChildren(node) |->
                                         TraversalChildren(node)[Len(TraversalChildren(node)) + 1 - i]]])

Enter(stk, node, from) ==
    /\ Len(flat) < MaxFlat
    /\ flat' = Append(flat, node)
    /\ via' = Append(via, from)
    /\ stack' = Append(stk, [node |-> node, pos |-> Len(flat) + 1,
                             rest |-> TraversalChildren(node)])

\* auditor.ts:88-90
TraverseRoot ==
    /\ pc = "flatten" /\ stack = <<>> /\ rootIdx <= Len(roots)
    /\ Enter(stack, roots[rootIdx], 0)
    /\ rootIdx' = rootIdx + 1
    /\ UNCHANGED <<pc, enabledRules, nodeIdx, ruleIdx, context, issues, errors,
                   seenIssues, checked, checkLog, result>>
    /\ UNCHANGED inputVars /\ UNCHANGED utilVars /\ UNCHANGED fixVars

\* auditor.ts:75-77 / 82-84: the innermost call visits its next child
TraverseChild ==
    /\ pc = "flatten" /\ stack # <<>>
    /\ LET top == stack[Len(stack)] IN
        /\ top.rest # <<>>
        /\ Enter([stack EXCEPT ![Len(stack)].rest = Tail(top.rest)], Head(top.rest), top.pos)
    /\ UNCHANGED <<pc, enabledRules, rootIdx, nodeIdx, ruleIdx, context, issues,
                   errors, seenIssues, checked, checkLog, result>>
    /\ UNCHANGED inputVars /\ UNCHANGED utilVars /\ UNCHANGED fixVars

\* auditor.ts:86: the innermost call has visited all its children and returns
TraverseReturn ==
    /\ pc = "flatten" /\ stack # <<>>
    /\ stack[Len(stack)].rest = <<>>
    /\ stack' = SubSeq(stack, 1, Len(stack) - 1)
    /\ UNCHANGED <<pc, enabledRules, flat, via, rootIdx, nodeIdx, ruleIdx, context,
                   issues, errors, seenIssues, checked, checkLog, result>>
    /\ UNCHANGED inputVars /\ UNCHANGED utilVars /\ UNCHANGED fixVars

\* auditor.ts:92, 27-29: flattenNodes returns, the loop over the nodes starts
FlattenDone ==
    /\ pc = "flatten" /\ stack = <<>> /\ rootIdx > Len(roots)
    /\ pc' = "node" /\ nodeIdx' = 1
    /\ UNCHANGED <<enabledRules, flat, via, stack, rootIdx, ruleIdx, context, issues,
                   errors, seenIssues, checked, checkLog, result>>
    /\ UNCHANGED inputVars /\ UNCHANGED utilVars /\ UNCHANGED fixVars

\* auditor.ts:29-32: the next node, its context, the loop over the rules starts
NodeContext ==
    /\ pc = "node" /\ nodeIdx <= Len(flat)
    /\ context' = BuildContext(flat[nodeIdx], flat)
    /\ ruleIdx' = 1
    /\ pc' = "rule"
    /\ UNCHANGED <<enabledRules, flat, via, stack, rootIdx, nodeIdx, issues, errors,
                   seenIssues, checked, checkLog, result>>
    /\ UNCHANGED inputVars /\ UNCHANGED utilVars /\ UNCHANGED fixVars

\* auditor.ts:32-34: the next enabled rule's check is called on the node and awaited
CheckCall_FanOut ==
    /\ pc = "rule" /\ ruleIdx <= Len(enabledRules)
    /\ checkLog' = Append(checkLog, <<"start", nodeIdx, ruleIdx>>)
    /\ ruleIdx' = ruleIdx + 1
    /\ UNCHANGED <<pc, enabledRules, flat, via, stack, rootIdx, nodeIdx, context, issues,
                   errors, seenIssues, checked, result>>
    /\ UNCHANGED inputVars /\ UNCHANGED utilVars /\ UNCHANGED fixVars

CheckCall ==
    /\ pc = "rule" /\ ruleIdx <= Len(enabledRules)
    /\ pc' = "check"
    /\ checkLog' = Append(checkLog, <<"start", nodeIdx, ruleIdx>>)
    /\ UNCHANGED <<enabledRules, flat, via, stack, rootIdx, nodeIdx, ruleIdx, context,
                   issues, errors, seenIssues, checked, result>>
    /\ UNCHANGED inputVars /\ UNCHANGED utilVars /\ UNCHANGED fixVars

\* auditor.ts:34-48: the awaited check settles and the engine deals with its outcome
RuleCheck_RunsFix ==
    /\ pc = "check"
    /\ LET rule == enabledRules[ruleIdx]
           node == flat[nodeIdx]
           out  == CheckOutcome(rule.id, node)
           issue == MakeIssue(rule.id, node, out, <<nodeIdx, ruleIdx>>)
       IN  /\ checked' = checked \cup {<<nodeIdx, rule.id>>}
           /\ checkLog' = Append(checkLog, <<"settle", nodeIdx, ruleIdx>>)
           /\ ruleIdx' = ruleIdx + 1
           /\ CASE out = "null" ->
                    /\ pc' = "rule"
                    /\ UNCHANGED <<issues, seenIssues, errors>>
                [] out = "throw" ->
                    /\ pc' = AfterThrow(errors, rule.id, node).pc
                    /\ errors' = AfterThrow(errors, rule.id, node).errors
                    /\ UNCHANGED <<issues, seenIssues>>
                [] OTHER ->
                    /\ pc' = "rule"
                    /\ issues' = IssuesAfter(issues, seenIssues, issue)
                    /\ seenIssues' = seenIssues \cup {issue.id}
                    /\ UNCHANGED errors
           /\ thunkRuns' = IF Fixable(issue) THEN RunThunk(thunkRuns, issue) ELSE thunkRuns
    /\ UNCHANGED <<enabledRules, flat, via, stack, rootIdx, nodeIdx, context, result>>
    /\ UNCHANGED inputVars /\ UNCHANGED utilVars
    /\ UNCHANGED <<applyCalls, undoStack, stored, lastUndo, fixCall, batch, apiCalls>>

RuleCheck ==
    /\ pc = "check"
    /\ LET rule == enabledRules[ruleIdx]
           node == flat[nodeIdx]
           out  == CheckOutcome(rule.id, node)
           issue == MakeIssue(rule.id, node, out, <<nodeIdx, ruleIdx>>)
       IN  /\ checked' = checked \cup {<<nodeIdx, rule.id>>}
           /\ checkLog' = Append(checkLog, <<"settle", nodeIdx, ruleIdx>>)
           /\ ruleIdx' = ruleIdx + 1
           /\ CASE out = "null" ->
                    /\ pc' = "rule"
                    /\ UNCHANGED <<issues, seenIssues, errors>>
                [] out = "throw" ->
                    /\ pc' = AfterThrow(errors, rule.id, node).pc
                    /\ errors' = AfterThrow(errors, rule.id, node).errors
                    /\ UNCHANGED <<issues, seenIssues>>
                [] OTHER ->
                    /\ pc' = "rule"
                    /\ issues' = IssuesAfter(issues, seenIssues, issue)
                    /\ seenIssues' = seenIssues \cup {issue.id}
                    /\ UNCHANGED errors
    /\ UNCHANGED <<enabledRules, flat, via, stack, rootIdx, nodeIdx, context, result>>
    /\ UNCHANGED inputVars /\ UNCHANGED utilVars /\ UNCHANGED fixVars

\* auditor.ts:29, 32: the rules are through for this node
NextNode ==
    /\ pc = "rule" /\ ruleIdx > Len(enabledRules)
    /\ nodeIdx' = nodeIdx + 1
    /\ pc' = "node"
    /\ UNCHANGED <<enabledRules, flat, via, stack, rootIdx, ruleIdx, context, issues,
                   errors, seenIssues, checked, checkLog, result>>
    /\ UNCHANGED inputVars /\ UNCHANGED utilVars /\ UNCHANGED fixVars

\* auditor.ts:51-58: the call resolves with the AuditResult
AuditReturn ==
    /\ pc = "node" /\ nodeIdx > Len(flat)
    /\ result' = [issues |-> issues, nodesAudited |-> Len(flat),
                  errors |-> ErrorsField(errors)]
    /\ pc' = "done"
    /\ UNCHANGED <<enabledRules, flat, via, stack, rootIdx, nodeIdx, ruleIdx, context,
                   issues, errors, seenIssues, checked, checkLog>>
    /\ UNCHANGED inputVars /\ UNCHANGED utilVars /\ UNCHANGED fixVars

AuditStep ==
    \/ AuditStart \/ TraverseRoot \/ TraverseChild \/ TraverseReturn \/ FlattenDone
    \/ NodeContext \/ CheckCall \/ RuleCheck \/ NextNode \/ AuditReturn

----------------------------------------------------------------------------
(* The fix engine: src/src/core/fixers.ts *)

MAX_UNDO_ENTRIES == 50

MaxApiCalls == 2    \* fix-engine and undo-log calls followed per behaviour

NoIssue == MakeIssue("", NoNode, "manual", <<0, 0>>)

\* An issue object built by a caller rather than by a rule (SUBMISSION.md:82-132):
\* the flag and the thunk are set independently of each other
CallerIssue(canAutoFix, hasFixAction, k) ==
    [id |-> <<"test">> \o NodeId(k), ruleId |-> "test", node |-> k,
     severity |-> "warning",
     canAutoFix |-> canAutoFix, hasFixAction |-> hasFixAction, at |-> <<0, k>>]

CallerIssues ==
    {CallerIssue(TRUE, TRUE, 1), CallerIssue(TRUE, FALSE, 2), CallerIssue(FALSE, TRUE, 3)}

\* the issue lists a caller hands to applyAllFixes besides an audit's result
CallerLists ==
    {<<CallerIssue(TRUE, TRUE, 1), CallerIssue(FALSE, TRUE, 3), CallerIssue(TRUE, TRUE, 1)>>,
     <<CallerIssue(TRUE, FALSE, 2), CallerIssue(FALSE, TRUE, 3)>>}

\* a direct applyFix call: where it is, its argument, its return value, the
\* number of times it invoked the thunk and how the thunk settled
NoFixCall == [st |-> "none", issue |-> NoIssue, ret |-> FALSE, runs |-> 0,
              outcome |-> "none"]

\* an applyAllFixes call: its arguments, its locals (fixableIssues, i, success,
\* failed), the onProgress calls made, and the log of its events:
\* <<"start", k, 0>> the thunk of the k-th fixable issue is invoked,
\* <<"settle", k, 1 or 0>> it completed (1) or threw (0),
\* <<"progress", k, total>> onProgress(k, total) is called
NoBatch == [st |-> "none", input |-> <<>>, fixable |-> <<>>, i |-> 0,
            success |-> 0, failed |-> 0, onProgress |-> FALSE, progress |-> <<>>,
            log |-> <<>>]

\* the value of getLastUndo: an entry, or undefined
NoEntry == [issueId |-> <<"", NoNode>>, nodeId |-> NoNode, property |-> "",
            previousValue |-> 0, timestamp |-> 0]

NoLookup == [called |-> FALSE, issueId |-> <<"", NoNode>>, found |-> FALSE, entry |-> NoEntry]

\* fixers.ts:85-90
Pushed_Unbounded(stk, entry) == Append(stk, entry)

Pushed_DropsNewest(stk, entry) ==
    IF Len(stk) >= MAX_UNDO_ENTRIES THEN stk ELSE Append(stk, entry)

Pushed(stk, entry) ==
    LET grown == Append(stk, entry)
    IN  IF Len(grown) > MAX_UNDO_ENTRIES THEN Tail(grown) ELSE grown

\* fixers.ts:77-83
UndoEntry(issueId, nodeId, property, previousValue, now) ==
    [issueId |-> issueId, nodeId |-> nodeId, property |-> property,
     previousValue |-> previousValue, timestamp |-> now]

\* fixers.ts:71-91: storeUndo(issueId, nodeId, property, previousValue) at time now
storeUndo(stk, issueId, nodeId, property, previousValue, now) ==
    Pushed(stk, UndoEntry(issueId, nodeId, property, previousValue, now))

\* fixers.ts:96-98: the newest entry with that issue id, or undefined
getLastUndo_Oldest(stk, issueId) ==
    LET hits == {k \in DOMAIN stk : stk[k].issueId = issueId}
    IN  IF hits = {} THEN [found |-> FALSE, entry |-> NoEntry]
        ELSE [found |-> TRUE, entry |-> stk[CHOOSE k \in hits : \A j \in hits : k <= j]]

getLastUndo(stk, issueId) ==
    LET hits == {k \in DOMAIN stk : stk[k].issueId = issueId}
    IN  IF hits = {} THEN [found |-> FALSE, entry |-> NoEntry]
        ELSE [found |-> TRUE, entry |-> stk[CHOOSE k \in hits : \A j \in hits : j <= k]]

\* The storeUndo calls a fix thunk makes, as <<issueId, nodeId, property,
\* previousValue>>.  The thunks the rules build only log the change they would
\* make (e.g. fixedInsideFill.ts:46-50): none stores anything, and so do the
\* empty thunks of the caller-built issues.
ThunkStores(issue) == <<>>

ThunkEntries(issue) ==
    [k \in DOMAIN ThunkStores(issue) |->
        UndoEntry(ThunkStores(issue)[k][1], ThunkStores(issue)[k][2],
                  ThunkStores(issue)[k][3], ThunkStores(issue)[k][4], 0)]

\* the undo log after a thunk made its storeUndo calls
RECURSIVE AfterThunk(_, _)
AfterThunk(stk, entries) ==
    IF entries = <<>> THEN stk ELSE AfterThunk(Pushed(stk, Head(entries)), Tail(entries))

\* fixers.ts:46
FixableIssues_All(list) == list

FixableIssues(list) == SelectSeq(list, Fixable)

\* auditor.ts:168-170
getAutoFixableCount(list) ==
    LET Flagged(issue) == issue.canAutoFix IN Len(SelectSeq(list, Flagged))

\* fixers.ts:24-31: what a call applyFix(issue) does before it first awaits:
\* nothing for an issue that cannot be fixed (it returns false), otherwise it
\* invokes the thunk, which runs up to its own first await
ApplyFixBegin(issue) ==
    /\ applyCalls' = applyCalls (+) SetToBag({issue})
    /\ thunkRuns' = IF Fixable(issue) THEN RunThunk(thunkRuns, issue) ELSE thunkRuns
    /\ undoStack' = IF Fixable(issue) THEN AfterThunk(undoStack, ThunkEntries(issue))
                    ELSE undoStack
    /\ stored' = IF Fixable(issue) THEN stored \o ThunkEntries(issue) ELSE stored

\* fixers.ts:24-31: applyFix(issue) is called on an issue of the result or on
\* one the caller built
ApplyFixCall ==
    /\ pc = "done" /\ fixCall.st # "thunk" /\ apiCalls < MaxApiCalls
    /\ \E issue \in Range(result.issues) \cup CallerIssues :
           /\ ApplyFixBegin(issue)
           /\ fixCall' = [st |-> IF Fixable(issue) THEN "thunk" ELSE "returned",
                          issue |-> issue, ret |-> FALSE,
                          runs |-> IF Fixable(issue) THEN 1 ELSE 0,
                          outcome |-> "none"]
    /\ apiCalls' = apiCalls + 1
    /\ UNCHANGED <<lastUndo, batch>>
    /\ UNCHANGED inputVars /\ UNCHANGED utilVars /\ UNCHANGED auditVars

\* fixers.ts:31-36: the awaited thunk settles; applyFix returns true if it
\* completed and false if it threw
ApplyFixSettle_Retry ==
    /\ fixCall.st = "thunk"
    /\ \E completed \in BOOLEAN :
         /\ fixCall' = [fixCall EXCEPT !.st = "returned", !.ret = completed,
                                       !.runs = IF completed THEN @ ELSE @ + 1,
                                       !.outcome = IF completed THEN "completed" ELSE "threw"]
         /\ thunkRuns' = IF completed THEN thunkRuns ELSE RunThunk(thunkRuns, fixCall.issue)
    /\ UNCHANGED <<applyCalls, undoStack, stored, lastUndo, batch, apiCalls>>
    /\ UNCHANGED inputVars /\ UNCHANGED utilVars /\ UNCHANGED auditVars

ApplyFixSettle_Rethrow ==
    /\ fixCall.st = "thunk"
    /\ \E completed \in BOOLEAN :
         fixCall' = [fixCall EXCEPT !.st = IF completed THEN "returned" ELSE "rejected",
                                    !.ret = completed,
                                    !.outcome = IF completed THEN "completed" ELSE "threw"]
    /\ UNCHANGED <<applyCalls, thunkRuns, undoStack, stored, lastUndo, batch, apiCalls>>
    /\ UNCHANGED inputVars /\ UNCHANGED utilVars /\ UNCHANGED auditVars

ApplyFixSettle ==
    /\ fixCall.st = "thunk"
    /\ \E completed \in BOOLEAN :
         fixCall' = [fixCall EXCEPT !.st = "returned", !.ret = completed,
                                    !.outcome = IF completed THEN "completed" ELSE "threw"]
    /\ UNCHANGED <<applyCalls, thunkRuns, undoStack, stored, lastUndo, batch, apiCalls>>
    /\ UNCHANGED inputVars /\ UNCHANGED utilVars /\ UNCHANGED auditVars

\* fixers.ts:42-48: applyAllFixes(issues, onProgress?) is called on the issues
\* of the result or on a list the caller built
BatchStart ==
    /\ pc = "done" /\ batch.st \in {"none", "returned"} /\ apiCalls < MaxApiCalls
    /\ \E input \in {result.issues} \cup CallerLists, withProgress \in BOOLEAN :
         batch' = [st |-> "loop", input |-> input, fixable |-> FixableIssues(input),
                   i |-> 1, success |-> 0, failed |-> 0, onProgress |-> withProgress,
                   progress |-> <<>>, log |-> <<>>]
    /\ apiCalls' = apiCalls + 1
    /\ UNCHANGED <<applyCalls, thunkRuns, undoStack, stored, lastUndo, fixCall>>
    /\ UNCHANGED inputVars /\ UNCHANGED utilVars /\ UNCHANGED auditVars

\* fixers.ts:50-52 with 24-31: the loop calls applyFix on the next fixable
\* issue and awaits it
BatchApply_NoAwait ==
    /\ batch.st = "loop" /\ batch.i <= Len(batch.fixable)
    /\ ApplyFixBegin(batch.fixable[batch.i])
    /\ batch' = [batch EXCEPT !.i = @ + 1, !.log = Append(@, <<"start", batch.i, 0>>)]
    /\ UNCHANGED <<lastUndo, fixCall, apiCalls>>
    /\ UNCHANGED inputVars /\ UNCHANGED utilVars /\ UNCHANGED auditVars

BatchApply ==
    /\ batch.st = "loop" /\ batch.i <= Len(batch.fixable)
    /\ ApplyFixBegin(batch.fixable[batch.i])
    /\ batch' = [batch EXCEPT !.st = "thunk", !.log = Append(@, <<"start", batch.i, 0>>)]
    /\ UNCHANGED <<lastUndo, fixCall, apiCalls>>
    /\ UNCHANGED inputVars /\ UNCHANGED utilVars /\ UNCHANGED auditVars

\* fixers.ts:60-62: the onProgress calls and the log after the attempt settled
Reported_OfInput(b, completed) ==
    LET settled == Append(b.log, <<"settle", b.i, IF completed THEN 1 ELSE 0>>)
    IN  IF b.onProgress
        THEN [progress |-> Append(b.progress, <<b.i, Len(b.input)>>),
              log |-> Append(settled, <<"progress", b.i, Len(b.input)>>)]
        ELSE [progress |-> b.progress, log |-> settled]

Reported(b, completed) ==
    LET settled == Append(b.log, <<"settle", b.i, IF completed THEN 1 ELSE 0>>)
    IN  IF b.onProgress
        THEN [progress |-> Append(b.progress, <<b.i, Len(b.fixable)>>),
              log |-> Append(settled, <<"progress", b.i, Len(b.fixable)>>)]
        ELSE [progress |-> b.progress, log |-> settled]

\* fixers.ts:54-58: the counters after applyFix returned
Counted_StopsAtFailure(b, completed) ==
    [success |-> IF completed THEN b.success + 1 ELSE b.success,
     failed |-> IF completed THEN b.failed ELSE b.failed + 1,
     i |-> IF completed THEN b.i + 1 ELSE Len(b.fixable) + 1]

Counted(b, completed) ==
    [success |-> IF completed THEN b.success + 1 ELSE b.success,
     failed |-> IF completed THEN b.failed ELSE b.failed + 1,
     i |-> b.i + 1]

\* fixers.ts:31-36, 54-62: that applyFix returns, the counters and onProgress follow
BatchSettle ==
    /\ batch.st = "thunk"
    /\ \E completed \in BOOLEAN :
         batch' = [batch EXCEPT
                     !.st = "loop",
                     !.i = Counted(batch, completed).i,
                     !.success = Counted(batch, completed).success,
                     !.failed = Counted(batch, completed).failed,
                     !.progress = Reported(batch, completed).progress,
                     !.log = Reported(batch, completed).log]
    /\ UNCHANGED <<applyCalls, thunkRuns, undoStack, stored, lastUndo, fixCall, apiCalls>>
    /\ UNCHANGED inputVars /\ UNCHANGED utilVars /\ UNCHANGED auditVars

\* fixers.ts:65
BatchReturn ==
    /\ batch.st = "loop" /\ batch.i > Len(batch.fixable)
    /\ batch' = [batch EXCEPT !.st = "returned"]
    /\ UNCHANGED <<applyCalls, thunkRuns, undoStack, stored, lastUndo, fixCall, apiCalls>>
    /\ UNCHANGED inputVars /\ UNCHANGED utilVars /\ UNCHANGED auditVars

\* fixers.ts:71-91: a call of storeUndo
StoreUndoCall(issueId, nodeId, property, previousValue, now) ==
    /\ undoStack' = storeUndo(undoStack, issueId, nodeId, property, previousValue, now)
    /\ stored' = Append(stored, UndoEntry(issueId, nodeId, property, previousValue, now))
    /\ lastUndo' = NoLookup

\* fixers.ts:96-98: a call of getLastUndo; the scan runs over a reversed copy
\* and leaves the log as it is
GetLastUndoCall(issueId) ==
    /\ lastUndo' = [called |-> TRUE, issueId |-> issueId,
                    found |-> getLastUndo(undoStack, issueId).found,
                    entry |-> getLastUndo(undoStack, issueId).entry]
    /\ UNCHANGED <<undoStack, stored>>

\* fixers.ts:103-105: a call of clearUndoHistory
ClearCall ==
    /\ undoStack' = <<>>
    /\ stored' = <<>>
    /\ lastUndo' = NoLookup

\* The values storeUndo is called with: issue id, node id, property, previous value
UndoNodes == 1..2
UndoIssueIds == {IssueId("fixed-inside-fill", "fixable", n) : n \in UndoNodes}
UndoProperties == {"width"}
UndoValues == {100}
\* Date.now()
Timestamps == {0}

\* fixers.ts:71-91
StoreUndo ==
    /\ apiCalls < MaxApiCalls
    /\ \E n \in UndoNodes, property \in UndoProperties,
          previousValue \in UndoValues, now \in Timestamps :
         StoreUndoCall(IssueId("fixed-inside-fill", "fixable", n), n, property,
                       previousValue, now)
    /\ apiCalls' = apiCalls + 1
    /\ UNCHANGED <<applyCalls, thunkRuns, fixCall, batch>>
    /\ UNCHANGED inputVars /\ UNCHANGED utilVars /\ UNCHANGED auditVars

\* fixers.ts:103-105
ClearUndoHistory ==
    /\ apiCalls < MaxApiCalls
    /\ ClearCall
    /\ apiCalls' = apiCalls + 1
    /\ UNCHANGED <<applyCalls, thunkRuns, fixCall, batch>>
    /\ UNCHANGED inputVars /\ UNCHANGED utilVars /\ UNCHANGED auditVars

FixStep ==
    \/ ApplyFixCall \/ ApplyFixSettle
    \/ BatchStart \/ BatchApply \/ BatchSettle \/ BatchReturn
    \/ StoreUndo \/ ClearUndoHistory

----------------------------------------------------------------------------
(* The undo log on its own: long runs of storeUndo, getLastUndo and         *)
(* clearUndoHistory calls                                                   *)

MaxUndoCalls == 53  \* storeUndo and clearUndoHistory calls followed
MaxRepeats == 1     \* storeUndo calls that reuse the issue id of the call before

\* storeUndo calls since the last clear that reused the id of the call before
Repeats == Cardinality({k \in 2..Len(stored) : stored[k].issueId = stored[k - 1].issueId})

\* the issue id of the next storeUndo call: one not used since the last clear,
\* or once more the id of the call before
NextUndoIds ==
    {<<"set-width-fill", Len(stored) + 1>>}
    \cup (IF stored # <<>> /\ Repeats < MaxRepeats THEN {stored[Len(stored)].issueId} ELSE {})

\* the ids getLastUndo is asked for: the first one stored, the two newest, one never stored
LookupIds ==
    {<<"set-width-fill", 1>>, <<"no-such-issue", 0>>}
    \cup {stored[k].issueId : k \in (DOMAIN stored) \cap {Len(stored) - 1, Len(stored)}}

\* fixers.ts:71-91; the previous value and the time stamp tell the calls apart
UndoStore ==
    /\ apiCalls < MaxUndoCalls
    /\ \E issueId \in NextUndoIds :
         StoreUndoCall(issueId, issueId[2], "width", apiCalls, apiCalls)
    /\ apiCalls' = apiCalls + 1
    /\ UNCHANGED <<applyCalls, thunkRuns, fixCall, batch>>
    /\ UNCHANGED inputVars /\ UNCHANGED utilVars /\ UNCHANGED auditVars

\* fixers.ts:96-98
UndoLookup ==
    /\ \E issueId \in LookupIds : GetLastUndoCall(issueId)
    /\ UNCHANGED <<applyCalls, thunkRuns, fixCall, batch, apiCalls>>
    /\ UNCHANGED inputVars /\ UNCHANGED utilVars /\ UNCHANGED auditVars

\* fixers.ts:103-105
UndoClear ==
    /\ apiCalls < MaxUndoCalls
    /\ ClearCall
    /\ apiCalls' = apiCalls + 1
    /\ UNCHANGED <<applyCalls, thunkRuns, fixCall, batch>>
    /\ UNCHANGED inputVars /\ UNCHANGED utilVars /\ UNCHANGED auditVars

NextUndo == UndoStore \/ UndoLookup \/ UndoClear

----------------------------------------------------------------------------
(* Inputs *)

Injective(f) == \A i, j \in DOMAIN f : i # j => f[i] # f[j]

\* children lists: up to MaxKids distinct nodes, in any order
KidLists == {k \in UNION {[1..n -> Nodes] : n \in 0..MaxKids} : Injective(k)}

\* framer.getChildren(id): resolves with an array, resolves with something
\* that is no array, or throws
HostAnswers ==
    {[status |-> "ok", kids |-> k] : k \in KidLists}
    \cup {[status |-> "throws", kids |-> <<>>], [status |-> "notArray", kids |-> <<>>]}

\* the node object's `children` field: absent, or an array
EmbeddedFields ==
    {[present |-> FALSE, kids |-> <<>>]} \cup {[present |-> TRUE, kids |-> k] : k \in KidLists}

\* root lists: the first k nodes (node ids are interchangeable)
RootLists == {[i \in 1..k |-> i] : k \in 0..MaxRoots}

\* the nodes some chain of provider or local children links to the roots
RECURSIVE Linked(_, _, _, _)
Linked(h, e, seen, n) ==
    LET next == seen \cup UNION {Range(h[x].kids) \cup Range(e[x].kids) : x \in seen}
    IN  IF n = 0 \/ next = seen THEN seen ELSE Linked(h, e, next, n - 1)

\* A host tree: a node object that embeds its children agrees with the
\* provider; nodes out of reach of the roots are left blank.
HostTree(r, h, e) ==
    /\ \A x \in Nodes : h[x].status = "ok" /\ e[x].present => e[x].kids = h[x].kids
    /\ \A x \in Nodes \ Linked(h, e, Range(r), MaxNodes) :
         h[x] = [status |-> "ok", kids |-> <<>>] /\ e[x] = [present |-> FALSE, kids |-> <<>>]

\* no throttled function has been made; nothing has been applied on its own
NoThrottle == [made |-> FALSE]
NoProbe == [op |-> "none"]

IdleEngine ==
    /\ pc = "idle"
    /\ enabledRules = <<>> /\ flat = <<>> /\ via = <<>> /\ stack = <<>>
    /\ rootIdx = 1 /\ nodeIdx = 1 /\ ruleIdx = 1
    /\ context = [parent |-> NoNode, siblings |-> <<>>]
    /\ issues = <<>> /\ errors = <<>> /\ seenIssues = {} /\ checked = {}
    /\ result = NoResult /\ checkLog = <<>>
    /\ applyCalls = EmptyBag /\ thunkRuns = EmptyBag /\ undoStack = <<>>
    /\ stored = <<>> /\ lastUndo = NoLookup
    /\ fixCall = NoFixCall /\ batch = NoBatch /\ apiCalls = 0

IdleInit == IdleEngine /\ thr = NoThrottle /\ probe = NoProbe

\* Trees of every shape, audited with one rule that flags every node
InitTree ==
    /\ registry = allRules
    /\ roots \in RootLists
    /\ host \in [Nodes -> HostAnswers]
    /\ embedded \in [Nodes -> EmbeddedFields]
    /\ HostTree(roots, host, embedded)
    /\ settings = [enabledRules |-> <<"low-contrast-text">>, disabledRules |-> <<>>]
    /\ behaviour = [p \in {"low-contrast-text"} \X Nodes |-> "manual"]
    /\ IdleInit

NextAudit == AuditStep

SpecTree == InitTree /\ [][NextAudit]_vars

\* The rules whose checks the inputs let find something
Pool == {"fixed-inside-fill", "low-contrast-text"}

RuleOf(ruleId) == allRules[CHOOSE i \in DOMAIN allRules : allRules[i].id = ruleId]

\* what a check of that rule can do: nothing, one of its issue kinds, or throw
Outcomes(ruleId) == {"null", "throw"} \cup RuleOf(ruleId).yields

\* well-formed trees: the children of a node have larger ids than the node
ForwardKids == {K \in [Nodes -> KidLists] : \A n \in Nodes : \A i \in DOMAIN K[n] : K[n][i] > n}

RECURSIVE Under(_, _, _)
Under(K, seen, n) ==
    LET next == seen \cup UNION {Range(K[x]) : x \in seen}
    IN  IF n = 0 \/ next = seen THEN seen ELSE Under(K, next, n - 1)

\* "api": the provider answers and node objects embed no children (nodes of
\* the host API); "local": the provider throws and node objects embed their
\* children (the plugin run outside the host)
TreeModes == {"api", "local"}

WellFormedTree ==
    \E K \in ForwardKids, mode \in TreeModes :
       /\ \A n \in Nodes \ Under(K, Range(roots), MaxNodes) : K[n] = <<>>
       /\ host = [n \in Nodes |-> IF mode = "api" THEN [status |-> "ok", kids |-> K[n]]
                                  ELSE [status |-> "throws", kids |-> <<>>]]
       /\ embedded = [n \in Nodes |-> IF mode = "local" THEN [present |-> TRUE, kids |-> K[n]]
                                      ELSE [present |-> FALSE, kids |-> <<>>]]

\* every pool rule finds its kind of issue on every node
FlagsAll == [p \in Pool \X Nodes |-> CHOOSE k \in RuleOf(p[1]).yields : TRUE]

AllowPool == [enabledRules |-> <<"low-contrast-text", "fixed-inside-fill">>,
              disabledRules |-> <<>>]

DEFAULT_SETTINGS == [enabledRules |-> <<>>, disabledRules |-> <<>>]

\* Well-formed trees audited with both pool rules, whose checks do anything
InitEngine ==
    /\ registry = allRules
    /\ roots \in RootLists
    /\ WellFormedTree
    /\ settings = AllowPool
    /\ behaviour \in {t \in [Pool \X Nodes -> {"null", "throw", "fixable", "manual"}] :
                        \A q \in Pool \X Nodes : t[q] \in Outcomes(q[1])}
    /\ \A n \in Nodes \ Linked(host, embedded, Range(roots), MaxNodes) :
          \A r \in Pool : behaviour[<<r, n>>] = "null"
    /\ IdleInit

SpecEngine == InitEngine /\ [][NextAudit]_vars

\* Settings of every shape: allow and deny lists over these ids
MaxListLen == 2
SettingIds == {"fixed-inside-fill", "low-contrast-text", "small-tap-targets", "no-such-rule"}
IdLists == UNION {[1..n -> SettingIds] : n \in 0..MaxListLen}

InitSettings ==
    /\ registry = allRules
    /\ roots = <<1>>
    /\ host = [n \in Nodes |-> [status |-> "ok", kids |-> IF n = 1 THEN <<2>> ELSE <<>>]]
    /\ embedded = [n \in Nodes |-> [present |-> FALSE, kids |-> <<>>]]
    /\ settings \in [enabledRules : IdLists, disabledRules : IdLists]
    /\ behaviour = FlagsAll
    /\ IdleInit

SpecSettings == InitSettings /\ [][NextAudit]_vars

\* The registry in another order than the module's own
Reversed(s) == [k \in DOMAIN s |-> s[Len(s) + 1 - k]]
Rotated(s) == IF s = <<>> THEN s ELSE Append(Tail(s), Head(s))
Registries == {allRules, Reversed(allRules), Rotated(allRules)}

\* the rules audited when the order of the registry varies
OrderPool == {"fixed-inside-fill", "overflowing-text"}

AllowOrderPool == [enabledRules |-> <<"overflowing-text", "fixed-inside-fill">>,
                   disabledRules |-> <<>>]

\* Well-formed trees audited with the two rules, whose checks find nothing or
\* an issue of any of their kinds, the registry in any of the orders
InitOrder ==
    /\ registry \in Registries
    /\ roots \in RootLists
    /\ WellFormedTree
    /\ settings = AllowOrderPool
    /\ behaviour \in {t \in [OrderPool \X Nodes -> {"null", "fixable", "fixableWidth"}] :
                        \A q \in OrderPool \X Nodes : t[q] \in Outcomes(q[1])}
    /\ \A n \in Nodes \ Linked(host, embedded, Range(roots), MaxNodes) :
          \A r \in OrderPool : behaviour[<<r, n>>] = "null"
    /\ IdleInit

SpecOrder == InitOrder /\ [][NextAudit]_vars

\* Audits followed by fix-engine and undo-log calls
Init ==
    /\ registry = allRules
    /\ roots \in RootLists
    /\ WellFormedTree
    /\ settings \in {AllowPool, DEFAULT_SETTINGS}
    /\ behaviour = FlagsAll
    /\ IdleInit

Next == AuditStep \/ FixStep

Spec == Init /\ [][Next]_vars

\* nothing to audit: the inputs of the engine when only a helper is applied
NoAuditInputs ==
    /\ registry = allRules
    /\ roots = <<>>
    /\ host = [n \in Nodes |-> [status |-> "ok", kids |-> <<>>]]
    /\ embedded = [n \in Nodes |-> [present |-> FALSE, kids |-> <<>>]]
    /\ settings = DEFAULT_SETTINGS
    /\ behaviour = FlagsAll

\* The undo log of a freshly loaded module, no audit running
InitUndo == NoAuditInputs /\ IdleInit

SpecUndo == InitUndo /\ [][NextUndo]_vars

----------------------------------------------------------------------------
(* The audit engine: C1 - C4 *)

\* the (flat position, rule position) pairs of an audit, in evaluation order:
\* nodes in flattened order and, for each node, the enabled rules in order
Pairs == (DOMAIN flat) \X (DOMAIN enabledRules)
Before(a, b) == a[1] < b[1] \/ (a[1] = b[1] /\ a[2] < b[2])
OutcomeAt(q) == CheckOutcome(enabledRules[q[2]].id, flat[q[1]])
Throwing == {q \in Pairs : OutcomeAt(q) = "throw"}
Producing == {q \in Pairs : OutcomeAt(q) \in {"fixable", "manual", "fixableWidth"}}
IdAt(q) == IssueId(enabledRules[q[2]].id, OutcomeAt(q), flat[q[1]])
RuleAt(q) == enabledRules[q[2]].id
NodeAt(q) == flat[q[1]]

RegistryIndex(rule) == CHOOSE i \in DOMAIN allRules : allRules[i] = rule

\* C1: getEnabledRules(settings) is exactly the registry rules, in registry
\* order, that are not in disabledRules and are in enabledRules when that list
\* is non-empty, enabled by default when it is empty; the audit never runs a
\* rule listed in both lists.
C1_EnabledRules ==
    /\ pc # "idle" =>
         /\ \A k \in DOMAIN enabledRules : enabledRules[k] \in Range(allRules)
         /\ \A k, l \in DOMAIN enabledRules :
               k < l => RegistryIndex(enabledRules[k]) < RegistryIndex(enabledRules[l])
         /\ \A i \in DOMAIN allRules :
               allRules[i] \in Range(enabledRules) <=>
                  /\ allRules[i].id \notin Range(settings.disabledRules)
                  /\ settings.enabledRules # <<>> => allRules[i].id \in Range(settings.enabledRules)
                  /\ settings.enabledRules = <<>> => allRules[i].enabledByDefault
    /\ \A c \in checked :
          ~(c[2] \in Range(settings.enabledRules) /\ c[2] \in Range(settings.disabledRules))

\* an audit has run with a rule in both lists and another rule allowed
C1_Witness ==
    /\ pc = "done" /\ checked # {}
    /\ \E id \in RuleIds : id \in Range(settings.enabledRules) /\ id \in Range(settings.disabledRules)

\* C2: the issue ids of a result are pairwise distinct; of the checks that
\* return an issue with the same id, the issue kept is the one produced first
\* in evaluation order; the later ones are dropped and leave nothing in errors.
C2_DedupFirstWins ==
    /\ \A a, b \in DOMAIN issues : a # b => issues[a].id # issues[b].id
    /\ pc = "done" =>
         /\ \A a, b \in DOMAIN result.issues : a # b => result.issues[a].id # result.issues[b].id
         /\ \A k \in DOMAIN result.issues :
               LET x == result.issues[k] IN
                 /\ x.at \in Producing /\ IdAt(x.at) = x.id
                 /\ \A q \in Producing : IdAt(q) = x.id => ~Before(q, x.at)
         /\ \A q \in Producing : \E k \in DOMAIN result.issues : result.issues[k].id = IdAt(q)
         /\ Len(result.errors.list) = Cardinality(Throwing)

\* a node was flattened twice, a rule flagged it both times
C2_Witness ==
    /\ pc = "done"
    /\ \E q, r \in Producing : Before(q, r) /\ IdAt(q) = IdAt(r)

\* C3: a check that throws does not make the audit reject; a message naming
\* the rule id and the node id is added to the errors, every other pair is
\* still evaluated and its issue, if any, is in the result.
C3_ThrowIsolated ==
    /\ pc # "rejected"
    /\ \A q \in Throwing :
          <<q[1], enabledRules[q[2]].id>> \in checked =>
             \E k \in DOMAIN errors : errors[k] = [rule |-> RuleAt(q), node |-> NodeAt(q)]
    /\ pc = "done" =>
         /\ checked = {<<q[1], enabledRules[q[2]].id>> : q \in Pairs}
         /\ \A q \in Producing : \E k \in DOMAIN result.issues : result.issues[k].id = IdAt(q)

\* a check threw and a later check's issue is in the result
C3_Witness ==
    /\ pc = "done"
    /\ \E q \in Throwing : \E k \in DOMAIN result.issues : Before(q, result.issues[k].at)

\* C4: the result's errors are present exactly when some check threw, and
\* then hold one entry per failing pair, in evaluation order.
C4_ErrorsPresence ==
    pc = "done" =>
       /\ result.errors.present <=> Throwing # {}
       /\ result.errors.present =>
            /\ result.errors.list # <<>>
            /\ Len(result.errors.list) = Cardinality(Throwing)
            /\ \A q \in Throwing :
                  LET k == Cardinality({r \in Throwing : Before(r, q)}) + 1
                  IN  result.errors.list[k] = [rule |-> RuleAt(q), node |-> NodeAt(q)]
       /\ ~result.errors.present => result.errors.list = <<>>

\* two checks of one audit threw
C4_Witness ==
    pc = "done" /\ result.errors.present /\ Len(result.errors.list) = 2

----------------------------------------------------------------------------
(* Flattening: C5 - C8 *)

Flattened == pc \in {"node", "rule", "check", "done"}

\* The children the host supplies for a node: the provider's array; the
\* node's embedded children when the provider throws.
Supplied(n) ==
    IF host[n].status = "ok" THEN host[n].kids
    ELSE IF host[n].status = "throws" /\ embedded[n].present THEN embedded[n].kids
    ELSE <<>>

\* depth-first, a node before its children, children in the order supplied
RECURSIVE Preorder(_, _)
RECURSIVE PreorderAll(_, _)
Preorder(n, fuel) ==
    IF fuel = 0 THEN <<n>> ELSE <<n>> \o PreorderAll(Supplied(n), fuel - 1)
PreorderAll(list, fuel) ==
    IF list = <<>> THEN <<>>
    ELSE Preorder(Head(list), fuel) \o PreorderAll(Tail(list), fuel)

RECURSIVE Descendants(_, _)
Descendants(seen, n) ==
    LET next == seen \cup UNION {Range(Supplied(x)) : x \in seen}
    IN  IF n = 0 \/ next = seen THEN seen ELSE Descendants(next, n - 1)

\* the entries of flat that the traverse call at position i discovered, in order
DiscoveredBy(i) ==
    LET js == {j \in DOMAIN flat : via[j] = i}
        RECURSIVE Up(_)
        Up(j) == IF j > Len(flat) THEN <<>>
                 ELSE (IF j \in js THEN <<flat[j]>> ELSE <<>>) \o Up(j + 1)
    IN  Up(1)

\* C5: once flattening has returned, the list is the roots in input order, each
\* followed by its subtree depth-first (node before children, children in the
\* order supplied); every node reachable from a root is in it; nodesAudited is
\* its length; an empty root list gives issues = [] and nodesAudited = 0.
C5_FlattenPreorder ==
    /\ Flattened =>
         /\ flat = PreorderAll(roots, MaxFlat)
         /\ Descendants(Range(roots), MaxNodes) \subseteq Range(flat)
    /\ pc = "done" =>
         /\ result.nodesAudited = Len(flat)
         /\ roots = <<>> => result.issues = <<>> /\ result.nodesAudited = 0

\* two roots, a node with two children and a grandchild, flattened and audited
C5_Witness ==
    /\ pc = "done" /\ Len(roots) = 2
    /\ \E i \in DOMAIN flat : Len(DiscoveredBy(i)) = 2
    /\ \E j \in DOMAIN flat : via[j] # 0 /\ via[via[j]] # 0

\* C6: where the provider throws for a node, the traverse call visits the
\* node's embedded children instead (none: a leaf); the audit does not reject
\* and the provider's failure adds nothing to the errors.
C6_ProviderFallback ==
    /\ pc # "rejected"
    /\ Flattened =>
         \A i \in DOMAIN flat :
            host[flat[i]].status = "throws" =>
               DiscoveredBy(i) = (IF embedded[flat[i]].present
                                  THEN embedded[flat[i]].kids ELSE <<>>)
    /\ \A k \in DOMAIN errors : CheckOutcome(errors[k].rule, errors[k].node) = "throw"
    /\ pc = "done" =>
         result.errors.present = (\E c \in checked : CheckOutcome(c[2], flat[c[1]]) = "throw")

\* the provider threw for a node with embedded children and for one without,
\* and the audit returned
C6_Witness ==
    /\ pc = "done"
    /\ \E i \in DOMAIN flat :
         host[flat[i]].status = "throws" /\ embedded[flat[i]].present
         /\ Len(DiscoveredBy(i)) = 2
    /\ \E i \in DOMAIN flat :
         host[flat[i]].status = "throws" /\ ~embedded[flat[i]].present

\* C7: a node that is its own descendant makes flattening fail fast: traverse
\* is never called again on a node whose call is still running unless the
\* audit rejects.
C7_CycleFailsFast ==
    (\E i, j \in DOMAIN stack : i < j /\ stack[i].node = stack[j].node) => pc = "rejected"

\* C8: the context of a node discovered as a child of p has parent = p and
\* siblings = p's children without the node; a root that no flattened node
\* has as a child has no parent and no siblings.
C8_ContextParent ==
    pc = "rule" =>
       LET n == flat[nodeIdx]
           NotSelf(c) == c # n
       IN  IF via[nodeIdx] # 0
           THEN /\ context.parent = flat[via[nodeIdx]]
                /\ context.siblings = SelectSeq(Supplied(flat[via[nodeIdx]]), NotSelf)
           ELSE (\A i \in DOMAIN flat : n \notin Range(Supplied(flat[i])))
                => context.parent = NoNode /\ context.siblings = <<>>

----------------------------------------------------------------------------
(* Audit and fix state: C9, C10 *)

\* C9: no step of an audit invokes a fix thunk or changes the undo log.
C9_AuditLeavesFixState ==
    [][AuditStep => (thunkRuns' = thunkRuns /\ undoStack' = undoStack)]_vars

\* an audit is collecting fixable issues while the undo log holds an entry
C9_Witness ==
    /\ pc = "rule" /\ undoStack # <<>>
    /\ \E k \in DOMAIN issues : Fixable(issues[k])

\* C10 as stated: over any sequence of applyFix and applyAllFixes calls the
\* fix thunk of an issue is invoked at most once.
C10_AtMostOnce ==
    \A x \in BagToSet(thunkRuns) : CopiesIn(x, thunkRuns) <= 1

\* C10 as amended: fix application is at most once per applyFix call (the
\* direct calls and the one call applyAllFixes makes per fixable issue of its
\* input): the thunk of an issue has run at most as often as applyFix was
\* called on it, and never for an issue that cannot be fixed.
C10_OncePerCall ==
    \A x \in BagToSet(thunkRuns) :
       Fixable(x) /\ CopiesIn(x, thunkRuns) <= CopiesIn(x, applyCalls)

\* applyFix was called twice on one issue and its thunk ran twice
C10_Witness ==
    \E x \in BagToSet(thunkRuns) : CopiesIn(x, thunkRuns) = 2 /\ CopiesIn(x, applyCalls) = 2

----------------------------------------------------------------------------
(* applyFix and applyAllFixes: C11 - C15 *)

\* C11: an applyFix call on an issue whose canAutoFix is false or whose
\* fixAction is absent returns false at once: no thunk is invoked, the undo
\* log is unchanged, the call does not throw.
C11_NonFixableNoEffect ==
    [][(ApplyFixCall /\ (~fixCall'.issue.canAutoFix \/ ~fixCall'.issue.hasFixAction))
          => /\ fixCall'.st = "returned" /\ fixCall'.ret = FALSE /\ fixCall'.runs = 0
             /\ thunkRuns' = thunkRuns
             /\ undoStack' = undoStack]_vars

\* applyFix returned on an issue flagged canAutoFix but without a thunk, the
\* undo log holding an entry
C11_Witness ==
    /\ fixCall.st = "returned" /\ ~fixCall.ret
    /\ fixCall.issue.canAutoFix /\ ~fixCall.issue.hasFixAction
    /\ undoStack # <<>> /\ thunkRuns = EmptyBag

\* C12: an applyFix call on a fixable issue invokes the thunk exactly once; it
\* returns true iff that invocation completed, false if it threw; it never
\* throws itself and never invokes the thunk a second time.
C12_OnceAndBoolean ==
    /\ fixCall.st # "rejected"
    /\ fixCall.st = "thunk" => Fixable(fixCall.issue) /\ fixCall.runs = 1
    /\ (fixCall.st = "returned" /\ Fixable(fixCall.issue)) =>
          /\ fixCall.runs = 1
          /\ fixCall.outcome \in {"completed", "threw"}
          /\ fixCall.ret = (fixCall.outcome = "completed")
    /\ \A x \in BagToSet(applyCalls) :
          Fixable(x) => CopiesIn(x, thunkRuns) = CopiesIn(x, applyCalls)

\* the thunk of a fixable issue threw and applyFix returned false
C12_Witness ==
    /\ fixCall.st = "returned" /\ Fixable(fixCall.issue)
    /\ fixCall.outcome = "threw" /\ ~fixCall.ret /\ fixCall.runs = 1
    /\ CopiesIn(fixCall.issue, thunkRuns) = 1

\* the fixable issues of the batch's input, counted from the flags themselves
BatchTotal ==
    LET Has(issue) == issue.canAutoFix /\ issue.hasFixAction
    IN  Len(SelectSeq(batch.input, Has))

\* positions of the log's events of one kind
Events(kind) == {p \in DOMAIN batch.log : batch.log[p][1] = kind}

\* C13: applyAllFixes returns success + failed = the number of fixable input
\* issues, success counting the thunks that completed and failed those that
\* threw; every fixable issue is attempted, whatever happened to the ones
\* before it; the other issues count nowhere.
C13_BatchCounts ==
    /\ batch.st \in {"loop", "thunk", "returned"} =>
         /\ batch.success = Cardinality({p \in Events("settle") : batch.log[p][3] = 1})
         /\ batch.failed = Cardinality({p \in Events("settle") : batch.log[p][3] = 0})
    /\ batch.st = "returned" =>
         /\ batch.success + batch.failed = BatchTotal
         /\ \A k \in 1..BatchTotal :
               /\ Cardinality({p \in Events("start") : batch.log[p][2] = k}) = 1
               /\ Cardinality({p \in Events("settle") : batch.log[p][2] = k}) = 1

\* a batch over two fixable issues and one that is not: the first fix failed,
\* the second succeeded
C13_Witness ==
    /\ batch.st = "returned" /\ Len(batch.input) = 3 /\ BatchTotal = 2
    /\ batch.failed = 1 /\ batch.success = 1
    /\ \E p \in Events("settle") : batch.log[p][2] = 1 /\ batch.log[p][3] = 0

\* the thunks of the batch that were invoked and have not settled
InFlight ==
    {batch.log[p][2] : p \in Events("start")} \ {batch.log[p][2] : p \in Events("settle")}

\* C14: the fixable issues of a batch are applied one after the other in input
\* order: the thunk of the k-th is invoked only after those of all earlier ones
\* have settled, and at most one thunk of the batch is in flight.
C14_Sequential ==
    /\ Cardinality(InFlight) <= 1
    /\ \A p \in Events("start") :
          /\ batch.log[p][2] = Cardinality({q \in Events("start") : q < p}) + 1
          /\ \A j \in 1..(batch.log[p][2] - 1) :
                \E q \in Events("settle") : q < p /\ batch.log[q][2] = j
    /\ batch.st # "none" =>
         \E pick \in [DOMAIN batch.fixable -> DOMAIN batch.input] :
            /\ \A a, b \in DOMAIN pick : a < b => pick[a] < pick[b]
            /\ \A a \in DOMAIN pick : batch.fixable[a] = batch.input[pick[a]]

\* the second thunk of a batch is in flight, the first has settled
C14_Witness ==
    /\ batch.st = "thunk" /\ InFlight = {2}
    /\ \E q \in Events("settle") : batch.log[q][2] = 1

\* C15: with onProgress supplied and N fixable issues, the k-th call is
\* onProgress(k, N), made after the k-th attempt settled (either way) and before
\* the next attempt starts; N calls in all by the time the batch returns, none
\* for N = 0.
C15_Progress ==
    /\ batch.progress = [k \in 1..Len(batch.progress) |-> <<k, BatchTotal>>]
    /\ Cardinality(Events("progress")) = Len(batch.progress)
    /\ batch.onProgress =>
         /\ Len(batch.progress) = Cardinality(Events("settle"))
         /\ \A p \in Events("settle") :
               p < Len(batch.log) /\ batch.log[p + 1] = <<"progress", batch.log[p][2], BatchTotal>>
         /\ batch.st = "returned" => Len(batch.progress) = BatchTotal
    /\ ~batch.onProgress => batch.progress = <<>>

\* a batch with onProgress returned: two fixable issues of three, one fix failed
C15_Witness ==
    /\ batch.st = "returned" /\ batch.onProgress
    /\ Len(batch.input) = 3 /\ batch.progress = <<<<1, 2>>, <<2, 2>>>>
    /\ batch.failed = 1

----------------------------------------------------------------------------
(* The undo log: C16 - C19 *)

\* the last n entries of a sequence
LastN(s, n) == IF Len(s) <= n THEN s ELSE SubSeq(s, Len(s) - n + 1, Len(s))

\* C16: the undo log never holds more than 50 entries.
C16_UndoBounded == Len(undoStack) <= MAX_UNDO_ENTRIES

\* the log is full and a further storeUndo call has been made
C16_Witness == Len(undoStack) = MAX_UNDO_ENTRIES /\ Len(stored) > MAX_UNDO_ENTRIES

\* C17: the log holds exactly the most recent min(n, 50) of the n entries
\* stored since the last clear, in insertion order; after 51 stores with
\* distinct ids the first id is gone and the 51st is found.
C17_StrictFifo ==
    /\ undoStack = LastN(stored, MAX_UNDO_ENTRIES)
    /\ (Len(stored) = MAX_UNDO_ENTRIES + 1
        /\ \A a, b \in DOMAIN stored : a # b => stored[a].issueId # stored[b].issueId) =>
          /\ ~getLastUndo(undoStack, stored[1].issueId).found
          /\ getLastUndo(undoStack, stored[MAX_UNDO_ENTRIES + 1].issueId).found
          /\ getLastUndo(undoStack, stored[MAX_UNDO_ENTRIES + 1].issueId).entry
                = stored[MAX_UNDO_ENTRIES + 1]
    /\ (lastUndo.called /\ Len(stored) = MAX_UNDO_ENTRIES + 1
        /\ lastUndo.issueId = stored[1].issueId
        /\ \A a \in 2..Len(stored) : stored[a].issueId # stored[1].issueId) => ~lastUndo.found

\* 51 entries with distinct ids were stored; getLastUndo was asked for the
\* first id and answered undefined
C17_Witness ==
    /\ Len(stored) = MAX_UNDO_ENTRIES + 1
    /\ \A a, b \in DOMAIN stored : a # b => stored[a].issueId # stored[b].issueId
    /\ lastUndo.called /\ lastUndo.issueId = stored[1].issueId /\ ~lastUndo.found
    /\ undoStack[1] = stored[2]

\* C18: getLastUndo(issueId) returns the entry of the most recent storeUndo
\* call with that id that is still in the log (its nodeId, property and
\* previousValue), and undefined when the log holds no entry with that id, as
\* after clearUndoHistory.
C18_LastWriteWins ==
    lastUndo.called =>
       LET same == {k \in DOMAIN undoStack : undoStack[k].issueId = lastUndo.issueId}
       IN  /\ lastUndo.found <=> same # {}
           /\ lastUndo.found =>
                \E k \in same : /\ lastUndo.entry = undoStack[k]
                                /\ \A j \in same : j <= k
           /\ undoStack = <<>> => ~lastUndo.found

\* two entries with one issue id are in the log and getLastUndo returned the newer
C18_Witness ==
    /\ lastUndo.called /\ lastUndo.found
    /\ \E j, k \in DOMAIN undoStack :
          /\ j < k /\ undoStack[j].issueId = lastUndo.issueId
          /\ undoStack[k] = lastUndo.entry
          /\ undoStack[j].previousValue # undoStack[k].previousValue

\* C19: when applyFix returns true for an issue a registered rule produced,
\* the undo log holds an entry for that issue (getLastUndo(issue.id) is
\* defined), stored by the thunk while it ran.
C19_ThunkSnapshots ==
    [][(ApplyFixSettle /\ fixCall'.ret /\ fixCall.issue.ruleId \in RuleIds)
          => /\ getLastUndo(undoStack', fixCall.issue.id).found
             /\ \E e \in Range(ThunkEntries(fixCall.issue)) : e.issueId = fixCall.issue.id]_vars

----------------------------------------------------------------------------
(* Issues and their thunks: C20 *)

\* C20: every issue of an audit's result has a fix thunk exactly when its
\* canAutoFix is true; so getAutoFixableCount of the result's issues is the
\* number of fixes applyAllFixes attempts on them (success + failed).
C20_ThunkIffFlag ==
    /\ \A k \in DOMAIN issues : issues[k].hasFixAction <=> issues[k].canAutoFix
    /\ pc = "done" =>
         /\ \A k \in DOMAIN result.issues :
               result.issues[k].hasFixAction <=> result.issues[k].canAutoFix
         /\ (batch.st = "returned" /\ batch.input = result.issues) =>
               batch.success + batch.failed = getAutoFixableCount(result.issues)

\* applyAllFixes returned on a result with fixable and other issues
C20_Witness ==
    /\ pc = "done" /\ batch.st = "returned" /\ batch.input = result.issues
    /\ \E k \in DOMAIN result.issues : result.issues[k].canAutoFix
    /\ \E k \in DOMAIN result.issues : ~result.issues[k].canAutoFix
    /\ batch.success + batch.failed = 2

----------------------------------------------------------------------------
(* The rule pass: C28 *)

\* positions of the check log's events of one kind
CheckEvents(kind) == {p \in DOMAIN checkLog : checkLog[p][1] = kind}

\* the checks that were called and have not settled
ChecksInFlight ==
    {<<checkLog[p][2], checkLog[p][3]>> : p \in CheckEvents("start")}
    \ {<<checkLog[p][2], checkLog[p][3]>> : p \in CheckEvents("settle")}

\* the k-th (flat position, rule position) pair in evaluation order
PairNo(k) == <<((k - 1) \div Len(enabledRules)) + 1, ((k - 1) % Len(enabledRules)) + 1>>

\* C28: at most one rule.check is in flight; the k-th check called is that of
\* the k-th pair in (flattened node order, enabled rule order) and is called
\* only after the one before it settled; none is called before flattening has
\* returned; the issues of the result are in that order.
C28_ChecksSequential ==
    /\ Cardinality(ChecksInFlight) <= 1
    /\ checkLog # <<>> => Flattened /\ stack = <<>> /\ rootIdx > Len(roots)
    /\ \A p \in CheckEvents("start") :
          LET k == Cardinality({q \in CheckEvents("start") : q <= p})
          IN  /\ <<checkLog[p][2], checkLog[p][3]>> = PairNo(k)
              /\ p > 1 => checkLog[p - 1] = <<"settle", PairNo(k - 1)[1], PairNo(k - 1)[2]>>
    /\ \A a, b \in DOMAIN issues : a < b => Before(issues[a].at, issues[b].at)
    /\ pc = "done" =>
         /\ Cardinality(CheckEvents("start")) = Len(flat) * Len(enabledRules)
         /\ Cardinality(CheckEvents("settle")) = Len(flat) * Len(enabledRules)
         /\ \A a, b \in DOMAIN result.issues :
               a < b => Before(result.issues[a].at, result.issues[b].at)

\* an audit of three nodes with two rules returned three issues or more
C28_Witness ==
    /\ pc = "done" /\ Len(flat) = 3 /\ Len(enabledRules) = 2
    /\ Len(result.issues) >= 3 /\ Len(checkLog) = 12

----------------------------------------------------------------------------
(* Rule order and issue ids: C23, C29 *)

\* what the claim compares of an issue
Summary(issue) == [id |-> issue.id, ruleId |-> issue.ruleId, severity |-> issue.severity,
                   canAutoFix |-> issue.canAutoFix]

\* the enabled rules in the order of the module's own registry
ReferenceRules == LET Keep(rule) == RuleEnabled(rule, settings) IN SelectSeq(allRules, Keep)

\* The issues an audit of the flattened nodes collects with the rules in that
\* order: pair k of (node order, rule order), the issues so far, the ids seen
RECURSIVE ReferenceAudit(_, _, _)
ReferenceAudit(k, iss, seen) ==
    IF ReferenceRules = <<>> \/ k > Len(flat) * Len(ReferenceRules) THEN iss
    ELSE LET n == ((k - 1) \div Len(ReferenceRules)) + 1
             r == ((k - 1) % Len(ReferenceRules)) + 1
             out == CheckOutcome(ReferenceRules[r].id, flat[n])
             issue == MakeIssue(ReferenceRules[r].id, flat[n], out, <<n, r>>)
         IN  IF out \in {"null", "throw"} THEN ReferenceAudit(k + 1, iss, seen)
             ELSE ReferenceAudit(k + 1, IssuesAfter(iss, seen, issue), seen \cup {issue.id})

\* C23: whatever the order of the rules in the registry, the result of an
\* audit has the same issue ids, each with the same ruleId, severity and
\* canAutoFix, as with the registry in the module's own order.
C23_OrderIndependent ==
    pc = "done" =>
       {Summary(result.issues[k]) : k \in DOMAIN result.issues}
          = {Summary(x) : x \in Range(ReferenceAudit(1, <<>>, {}))}

\* an audit with the registry reversed returned issues of both rules, one of
\* them kept from two checks that built the same id
C23_Witness ==
    /\ pc = "done" /\ registry = Reversed(allRules)
    /\ \E k \in DOMAIN result.issues : result.issues[k].ruleId = "fixed-inside-fill"
    /\ \E k \in DOMAIN result.issues : result.issues[k].ruleId = "overflowing-text"
    /\ \E q, r \in Producing : q # r /\ IdAt(q) = IdAt(r)

\* C29: two checks that return issues for nodes with different ids build
\* different issue ids, so every issue a check returned for a node is in the
\* result unless the same rule already reported a node with that id.
C29_NoForeignDrop ==
    pc = "done" =>
       /\ \A q, r \in Producing : NodeId(NodeAt(q)) # NodeId(NodeAt(r)) => IdAt(q) # IdAt(r)
       /\ \A q \in Producing :
             \E k \in DOMAIN result.issues :
                /\ result.issues[k].ruleId = RuleAt(q)
                /\ NodeId(result.issues[k].node) = NodeId(NodeAt(q))

----------------------------------------------------------------------------
(* Issue aggregation: C21, C22 *)

MaxIssues == 3

IssueCategories == {"layout", "spacing", "hierarchy", "accessibility", "performance"}
Severities == {"error", "warning", "info"}

severityOrder == [s \in Severities |-> CASE s = "error" -> 0 [] s = "warning" -> 1 [] OTHER -> 2]

\* Lists of issues as a caller builds them: issue k of a list has id k, any
\* severity, and one of the five categories or one the grouping does not know
ListIssues(k) == [id : {k}, category : IssueCategories \cup {"other"}, severity : Severities]

IssueLists ==
    UNION {{l \in [1..n -> UNION {ListIssues(k) : k \in 1..n}] : \A k \in 1..n : l[k].id = k}
             : n \in 0..MaxIssues}

\* grouped[issue.category].push(issue), at the head of the group
groupIssuesByCategory_Prepend(list) ==
    [c \in IssueCategories |->
        LET Same(issue) == issue.category = c
        IN  Reversed(SelectSeq(list, Same))]

\* the five groups start empty; each issue of the input, in order, is pushed
\* to the group of its category if there is one
RECURSIVE GroupFrom(_, _)
GroupFrom(list, grouped) ==
    IF list = <<>> THEN grouped
    ELSE LET issue == Head(list)
         IN  IF issue.category \in DOMAIN grouped
                THEN GroupFrom(Tail(list),
                        [grouped EXCEPT ![issue.category] = Append(@, issue)])
                ELSE GroupFrom(Tail(list), grouped)

groupIssuesByCategory(list) == GroupFrom(list, [c \in IssueCategories |-> <<>>])

\* a sorted list with one more issue, placed behind those that do not compare
\* greater
RECURSIVE InsertStable(_, _)
InsertStable(sorted, issue) ==
    IF sorted = <<>> THEN <<issue>>
    ELSE IF severityOrder[Head(sorted).severity] - severityOrder[issue.severity] <= 0
            THEN <<Head(sorted)>> \o InsertStable(Tail(sorted), issue)
            ELSE <<issue>> \o sorted

RECURSIVE StableSort(_)
StableSort(list) ==
    IF list = <<>> THEN <<>>
    ELSE InsertStable(StableSort(SubSeq(list, 1, Len(list) - 1)), list[Len(list)])

\* issues.sort(...): the caller's array is sorted and returned
sortBySeverity_InPlace(list) == [returned |-> StableSort(list), argument |-> StableSort(list)]

\* [...issues].sort(...): a copy is sorted; what is returned, and the
\* caller's array after the call
sortBySeverity(list) == [returned |-> StableSort(list), argument |-> list]

GroupCall ==
    /\ probe.op = "none"
    /\ probe' = [op |-> "group", input |-> probe.input, argument |-> probe.input,
                 output |-> groupIssuesByCategory(probe.input)]
    /\ UNCHANGED inputVars /\ UNCHANGED auditVars /\ UNCHANGED fixVars /\ UNCHANGED thr

SortCall ==
    /\ probe.op = "none"
    /\ LET call == sortBySeverity(probe.input)
       IN  probe' = [op |-> "sort", input |-> probe.input, argument |-> call.argument,
                     output |-> call.returned]
    /\ UNCHANGED inputVars /\ UNCHANGED auditVars /\ UNCHANGED fixVars /\ UNCHANGED thr

NextLists == GroupCall \/ SortCall

InitLists ==
    /\ NoAuditInputs /\ IdleEngine /\ thr = NoThrottle
    /\ probe \in [op : {"none"}, input : IssueLists]

SpecLists == InitLists /\ [][NextLists]_vars

\* where the issue with that id stands in a list
PositionIn(list, id) == CHOOSE k \in DOMAIN list : list[k].id = id

RECURSIVE SumOver(_, _)
SumOver(f, S) ==
    IF S = {} THEN 0
    ELSE LET c == CHOOSE x \in S : TRUE IN Len(f[c]) + SumOver(f, S \ {c})

\* C21: when every issue of the input has one of the five categories, the
\* groups partition the input: every issue is in the group of its category
\* and in no other, once; the group sizes add up to the length of the input;
\* and the issues of a group stand in the order they have in the input.
C21_GroupsPartition ==
    (probe.op = "group" /\ \A k \in DOMAIN probe.input : probe.input[k].category \in IssueCategories) =>
       /\ DOMAIN probe.output = IssueCategories
       /\ SumOver(probe.output, IssueCategories) = Len(probe.input)
       /\ \A k \in DOMAIN probe.input : \A c \in IssueCategories :
             Cardinality({i \in DOMAIN probe.output[c] : probe.output[c][i] = probe.input[k]})
                = IF probe.input[k].category = c THEN 1 ELSE 0
       /\ \A c \in IssueCategories : \A i, j \in DOMAIN probe.output[c] :
             i < j => PositionIn(probe.input, probe.output[c][i].id)
                         < PositionIn(probe.input, probe.output[c][j].id)

\* three issues of known categories grouped, two of them in one group and
\* apart in the input
C21_Witness ==
    /\ probe.op = "group" /\ Len(probe.input) = 3
    /\ \A k \in DOMAIN probe.input : probe.input[k].category \in IssueCategories
    /\ probe.input[1].category = "layout" /\ probe.input[2].category = "spacing"
    /\ probe.input[3].category = "layout"
    /\ Len(probe.output["layout"]) = 2

\* C22: the list returned is a permutation of the input, no issue of it
\* stands behind one of a lower severity rank (error, warning, info), issues
\* of equal severity keep the order of the input, and the input is unchanged.
C22_StableSort ==
    probe.op = "sort" =>
       /\ Len(probe.output) = Len(probe.input)
       /\ \A k \in DOMAIN probe.input :
             Cardinality({i \in DOMAIN probe.output : probe.output[i] = probe.input[k]}) = 1
       /\ \A i, j \in DOMAIN probe.output :
             i < j => severityOrder[probe.output[i].severity]
                         <= severityOrder[probe.output[j].severity]
       /\ \A i, j \in DOMAIN probe.output :
             (i < j /\ probe.output[i].severity = probe.output[j].severity)
                => PositionIn(probe.input, probe.output[i].id)
                      < PositionIn(probe.input, probe.output[j].id)
       /\ probe.argument = probe.input

\* a list sorted whose order had to change, with two issues of equal severity
C22_Witness ==
    /\ probe.op = "sort" /\ Len(probe.input) = 3
    /\ probe.input[1].severity = "info" /\ probe.input[2].severity = "error"
    /\ probe.input[3].severity = "info"
    /\ probe.output # probe.input

----------------------------------------------------------------------------
(* throttle: C30 *)

MaxLimit == 3
MaxTime == 6
MaxCalls == 4

\* the arguments a caller passes; null when none are kept
CallArgs == 1..2
NoArgs == 0
NoTimer == [set |-> FALSE, due |-> 0]

\* throttled(...args): func runs at once and a timer is set when not in the
\* throttle; otherwise the arguments are kept for later
ThrottledCall ==
    /\ thr.made /\ thr.calls < MaxCalls
    /\ \E args \in CallArgs :
          IF ~thr.inThrottle
             THEN thr' = [thr EXCEPT !.invoked = Append(@, [at |-> thr.now, args |-> args]),
                                     !.inThrottle = TRUE,
                                     !.timer = [set |-> TRUE, due |-> thr.now + thr.limit],
                                     !.calls = @ + 1]
             ELSE thr' = [thr EXCEPT !.lastArgs = args, !.calls = @ + 1]
    /\ UNCHANGED inputVars /\ UNCHANGED auditVars /\ UNCHANGED fixVars /\ UNCHANGED probe

\* the callback given to setTimeout, run once limit ms have passed or later:
\* the throttle opens, and func runs with the arguments kept, if any
TimerFire ==
    /\ thr.made /\ thr.timer.set /\ thr.now >= thr.timer.due
    /\ thr' = [thr EXCEPT !.timer = NoTimer,
                          !.inThrottle = FALSE,
                          !.invoked = IF thr.lastArgs # NoArgs
                                         THEN Append(@, [at |-> thr.now, args |-> thr.lastArgs])
                                         ELSE @,
                          !.lastArgs = NoArgs]
    /\ UNCHANGED inputVars /\ UNCHANGED auditVars /\ UNCHANGED fixVars /\ UNCHANGED probe

\* a millisecond passes
Tick ==
    /\ thr.made /\ thr.now < MaxTime
    /\ thr' = [thr EXCEPT !.now = @ + 1]
    /\ UNCHANGED inputVars /\ UNCHANGED auditVars /\ UNCHANGED fixVars /\ UNCHANGED probe

NextThrottle == ThrottledCall \/ TimerFire \/ Tick

\* throttle(func, limit) has returned the throttled function
InitThrottle ==
    /\ NoAuditInputs /\ IdleEngine /\ probe = NoProbe
    /\ thr \in [made : {TRUE}, limit : 1..MaxLimit, now : {0}, inThrottle : {FALSE},
                lastArgs : {NoArgs}, timer : {NoTimer}, invoked : {<<>>}, calls : {0}]

SpecThrottle == InitThrottle /\ [][NextThrottle]_vars

\* C30: any two invocations of func, the trailing one with the kept arguments
\* included, are at least limit milliseconds apart.
C30_AtLeastLimitApart ==
    thr.made =>
       \A i, j \in DOMAIN thr.invoked :
          i < j => thr.invoked[j].at - thr.invoked[i].at >= thr.limit

----------------------------------------------------------------------------
(* The rule checks on their own: C24 - C27 *)

MIN_TAP_TARGET_SIZE == 44

\* A width or height as the host hands it over: absent, a number, or a string.
\* A string is written as the number its leading digits spell (NoDigits when
\* it starts with none) and the text behind them: "30px" is Str(30, "px"),
\* "1fr" is Str(1, "fr"), "100" is Str(100, ""), "fill" is Str(NoDigits, "fill").
NoDigits == -1
Absent == [kind |-> "absent", num |-> 0, rest |-> ""]
Num(n) == [kind |-> "number", num |-> n, rest |-> ""]
Str(n, rest) == [kind |-> "string", num |-> n, rest |-> rest]

Dimensions ==
    {Absent, Num(30), Num(44), Num(100),
     Str(NoDigits, "fill"), Str(1, "fr"), Str(NoDigits, "hug"),
     Str(30, "px"), Str(100, ""), Str(2, "fr")}

Undefined == [t |-> "undefined", n |-> 0]
Fill == [t |-> "fill", n |-> 0]
Number(n) == [t |-> "number", n |-> n]

\* a number is itself; "fill" and "1fr" are fill; "<digits>px" is the number;
\* any other string is what parseFloat reads at its start, if anything
parseDimension(value) ==
    IF value.kind = "number" THEN Number(value.num)
    ELSE IF value.kind = "string"
       THEN IF (value.num = NoDigits /\ value.rest = "fill") \/ (value.num = 1 /\ value.rest = "fr")
               THEN Fill
            ELSE IF value.num # NoDigits /\ value.rest = "px" THEN Number(value.num)
            ELSE IF value.num # NoDigits THEN Number(value.num)
            ELSE Undefined
       ELSE Undefined

isFrameNode(node) == node.class = "FrameNode"
isTextNode(node) == node.class = "TextNode"

AsNumber(parsed) == IF parsed.t = "number" THEN parsed ELSE Undefined

getNodeWidth(node) == IF node.width.kind # "absent" THEN AsNumber(parseDimension(node.width)) ELSE Undefined
getNodeHeight(node) == IF node.height.kind # "absent" THEN AsNumber(parseDimension(node.height)) ELSE Undefined

hasFixedWidth(node) == node.width.kind # "absent" /\ parseDimension(node.width).t = "number"
hasFixedHeight(node) == node.height.kind # "absent" /\ parseDimension(node.height).t = "number"
isFillWidth(node) == node.width.kind # "absent" /\ parseDimension(node.width) = Fill
isFillHeight(node) == node.height.kind # "absent" /\ parseDimension(node.height) = Fill

\* Math.min of the two when both are numbers, else width ?? height
getMinDimension(node) ==
    LET width == getNodeWidth(node)
        height == getNodeHeight(node)
    IN  IF width # Undefined /\ height # Undefined
           THEN Number(IF width.n <= height.n THEN width.n ELSE height.n)
           ELSE IF width # Undefined THEN width ELSE height

\* A name is a list of words, each written in lower case, Capitalised or in
\* UPPER case; no name is the empty list
Word(text, case) == [text |-> text, case |-> case]
toLowerCase(name) == [k \in DOMAIN name |-> Word(name[k].text, "lower")]

interactiveKeywords ==
    {"button", "btn", "link", "cta", "click", "tap", "toggle", "checkbox", "radio", "input"}

\* the keywords the lower-case spelling of a word of the inputs contains
KeywordsWithin(text) ==
    CASE text = "button"  -> {"button"}
      [] text = "btn"     -> {"btn"}
      [] text = "captain" -> {"tap"}
      [] OTHER            -> {}

\* name.includes(keyword): the characters are compared as written
includes(name, keyword) ==
    \E k \in DOMAIN name : name[k].case = "lower" /\ keyword \in KeywordsWithin(name[k].text)

isLikelyInteractive_CaseSensitive(node) ==
    \E keyword \in interactiveKeywords : includes(node.name, keyword)

isLikelyInteractive(node) ==
    LET name == toLowerCase(node.name)
    IN  \E keyword \in interactiveKeywords : includes(name, keyword)

\* What a check resolves to: null, or an issue and the metadata the claims
\* are about
NullResult == [found |-> FALSE, issue |-> NoIssue, currentMinSize |-> 0, deficit |-> 0]
IssueResult(ruleId, node, kind) ==
    [found |-> TRUE, issue |-> MakeIssue(ruleId, node.id, kind, <<0, 0>>),
     currentMinSize |-> 0, deficit |-> 0]

\* no parent in the context
NoShape == [id |-> NoNode, class |-> "none", name |-> <<>>, width |-> Absent, height |-> Absent]

fixedInsideFillCheck_AnyParent(node, parent) ==
    IF parent = NoShape THEN NullResult
    ELSE IF ~isFillWidth(parent) THEN NullResult
    ELSE IF ~hasFixedWidth(node) THEN NullResult
    ELSE IssueResult("fixed-inside-fill", node, "fixable")

fixedInsideFillCheck(node, parent) ==
    IF parent = NoShape \/ ~isFrameNode(parent) THEN NullResult
    ELSE IF ~isFillWidth(parent) THEN NullResult
    ELSE IF ~hasFixedWidth(node) THEN NullResult
    ELSE IssueResult("fixed-inside-fill", node, "fixable")

Exceeds(a, b) == a # Undefined /\ b # Undefined /\ a.n > b.n

overflowingTextCheck_WidthFirst(node, parent) ==
    IF ~isTextNode(node) THEN NullResult
    ELSE IF parent = NoShape \/ ~isFrameNode(parent) THEN NullResult
    ELSE IF Exceeds(getNodeWidth(node), getNodeWidth(parent))
            THEN IssueResult("overflowing-text", node, "fixableWidth")
    ELSE IF Exceeds(getNodeHeight(node), getNodeHeight(parent))
            THEN IssueResult("overflowing-text", node, "fixable")
    ELSE NullResult

overflowingTextCheck(node, parent) ==
    IF ~isTextNode(node) THEN NullResult
    ELSE IF parent = NoShape \/ ~isFrameNode(parent) THEN NullResult
    ELSE IF Exceeds(getNodeHeight(node), getNodeHeight(parent))
            THEN IssueResult("overflowing-text", node, "fixable")
    ELSE IF Exceeds(getNodeWidth(node), getNodeWidth(parent))
            THEN IssueResult("overflowing-text", node, "fixableWidth")
    ELSE NullResult

smallTapTargetsCheck(node) ==
    IF ~isLikelyInteractive(node) THEN NullResult
    ELSE LET minDim == getMinDimension(node)
         IN  IF minDim = Undefined THEN NullResult
             ELSE IF minDim.n < MIN_TAP_TARGET_SIZE
                     THEN [IssueResult("small-tap-targets", node, "fixable")
                             EXCEPT !.currentMinSize = minDim.n,
                                    !.deficit = MIN_TAP_TARGET_SIZE - minDim.n]
                     ELSE NullResult

unnecessaryNestingCheck(node, children) ==
    IF ~isFrameNode(node) THEN NullResult
    ELSE IF Len(children) # 1 THEN NullResult
    ELSE LET child == children[1]
             sameWidthConstraint ==
                 (hasFixedWidth(node) = hasFixedWidth(child))
                    \/ (isFillWidth(node) /\ isFillWidth(child))
             sameHeightConstraint ==
                 (hasFixedHeight(node) = hasFixedHeight(child))
                    \/ (isFillHeight(node) /\ isFillHeight(child))
         IN  IF ~isFrameNode(child) THEN NullResult
             ELSE IF sameWidthConstraint /\ sameHeightConstraint
                     THEN IssueResult("unnecessary-nesting", node, "fixable")
                     ELSE NullResult

\* the nodes the checks are applied to
Shapes(id, classes, names, widths, heights) ==
    [id : {id}, class : classes, name : names, width : widths, height : heights]

Classes == {"FrameNode", "TextNode", "ImageNode", "ComponentNode"}

Names ==
    {<<>>,
     <<Word("submit", "Capital"), Word("button", "Capital")>>,
     <<Word("container", "Capital")>>,
     <<Word("btn", "lower")>>,
     <<Word("button", "UPPER")>>,
     <<Word("captain", "Capital")>>}

Call(rule, nodes, parents, kidLists) ==
    [op : {"none"}, rule : {rule}, node : nodes, parent : parents, kids : kidLists]

\* a node of any class and width under no parent or one of any class and width
FixedInsideFillInputs ==
    Call("fixed-inside-fill",
         Shapes(1, Classes, {<<>>}, Dimensions, {Absent}),
         {NoShape} \cup Shapes(3, Classes, {<<>>}, Dimensions, {Absent}),
         {<<>>})

OverflowingTextInputs ==
    Call("overflowing-text",
         Shapes(1, {"TextNode", "FrameNode"}, {<<>>}, Dimensions, Dimensions),
         {NoShape} \cup Shapes(3, {"FrameNode", "ComponentNode"}, {<<>>}, Dimensions, Dimensions),
         {<<>>})

SmallTapTargetsInputs ==
    Call("small-tap-targets",
         Shapes(1, {"FrameNode", "TextNode"}, Names, Dimensions, Dimensions),
         {NoShape},
         {<<>>})

\* a node with no child, one child, or two
UnnecessaryNestingInputs ==
    LET Kids == Shapes(2, {"FrameNode", "TextNode"}, {<<>>}, Dimensions, Dimensions)
        second == [id |-> 3, class |-> "FrameNode", name |-> <<>>,
                   width |-> Num(100), height |-> Num(100)]
    IN  Call("unnecessary-nesting",
             Shapes(1, {"FrameNode", "ComponentNode"}, {<<>>}, Dimensions, Dimensions),
             {NoShape},
             {<<>>} \cup {<<c>> : c \in Kids} \cup {<<c, second>> : c \in Kids})

Checked(output) ==
    probe' = [op |-> "check", rule |-> probe.rule, node |-> probe.node,
              parent |-> probe.parent, kids |-> probe.kids, output |-> output]

FixedInsideFillCall ==
    /\ probe.op = "none" /\ probe.rule = "fixed-inside-fill"
    /\ Checked(fixedInsideFillCheck(probe.node, probe.parent))
    /\ UNCHANGED inputVars /\ UNCHANGED auditVars /\ UNCHANGED fixVars /\ UNCHANGED thr

OverflowingTextCall ==
    /\ probe.op = "none" /\ probe.rule = "overflowing-text"
    /\ Checked(overflowingTextCheck(probe.node, probe.parent))
    /\ UNCHANGED inputVars /\ UNCHANGED auditVars /\ UNCHANGED fixVars /\ UNCHANGED thr

SmallTapTargetsCall ==
    /\ probe.op = "none" /\ probe.rule = "small-tap-targets"
    /\ Checked(smallTapTargetsCheck(probe.node))
    /\ UNCHANGED inputVars /\ UNCHANGED auditVars /\ UNCHANGED fixVars /\ UNCHANGED thr

UnnecessaryNestingCall ==
    /\ probe.op = "none" /\ probe.rule = "unnecessary-nesting"
    /\ Checked(unnecessaryNestingCheck(probe.node, probe.kids))
    /\ UNCHANGED inputVars /\ UNCHANGED auditVars /\ UNCHANGED fixVars /\ UNCHANGED thr

NextRules ==
    FixedInsideFillCall \/ OverflowingTextCall \/ SmallTapTargetsCall \/ UnnecessaryNestingCall

InitRules ==
    /\ NoAuditInputs /\ IdleEngine /\ thr = NoThrottle
    /\ probe \in FixedInsideFillInputs \cup OverflowingTextInputs
                    \cup SmallTapTargetsInputs \cup UnnecessaryNestingInputs

SpecRules == InitRules /\ [][NextRules]_vars

CheckedRule(rule) == probe.op = "check" /\ probe.rule = rule

Parses(value, t) == parseDimension(value).t = t

\* C24: fixed-inside-fill returns an issue exactly when the context has a
\* parent that is a frame whose width parses to fill and the width of the
\* node parses to a number; the issue is a warning of the rule that can be
\* fixed automatically.
C24_FixedInsideFill ==
    CheckedRule("fixed-inside-fill") =>
       /\ probe.output.found <=>
             /\ probe.parent # NoShape /\ probe.parent.class = "FrameNode"
             /\ Parses(probe.parent.width, "fill")
             /\ Parses(probe.node.width, "number")
       /\ probe.output.found =>
             /\ probe.output.issue.severity = "warning"
             /\ probe.output.issue.canAutoFix
             /\ probe.output.issue.ruleId = "fixed-inside-fill"

\* a node of width "30px" flagged under a frame of width "1fr"
C24_Witness ==
    /\ CheckedRule("fixed-inside-fill") /\ probe.output.found
    /\ probe.parent.width = Str(1, "fr") /\ probe.node.width = Str(30, "px")

Higher == Parses(probe.node.height, "number") /\ Parses(probe.parent.height, "number")
             /\ parseDimension(probe.node.height).n > parseDimension(probe.parent.height).n
Wider == Parses(probe.node.width, "number") /\ Parses(probe.parent.width, "number")
             /\ parseDimension(probe.node.width).n > parseDimension(probe.parent.width).n

\* C25: overflowing-text returns null for a node that is not text and for
\* text without a frame parent; for text under a frame it returns an error
\* when the text is higher than the frame, whatever the widths; otherwise a
\* warning whose id has the width qualifier when the text is wider than the
\* frame; otherwise null.
C25_OverflowingText ==
    CheckedRule("overflowing-text") =>
       LET out == probe.output
           applies == probe.node.class = "TextNode" /\ probe.parent # NoShape
                         /\ probe.parent.class = "FrameNode"
       IN  /\ ~applies => ~out.found
           /\ (applies /\ Higher) =>
                 /\ out.found /\ out.issue.severity = "error"
                 /\ out.issue.id = <<"overflowing", "text">> \o NodeId(probe.node.id)
           /\ (applies /\ ~Higher /\ Wider) =>
                 /\ out.found /\ out.issue.severity = "warning"
                 /\ out.issue.id = <<"overflowing", "text", "width">> \o NodeId(probe.node.id)
           /\ (applies /\ ~Higher /\ ~Wider) => ~out.found

\* a text both higher and wider than its frame reported as an error
C25_Witness ==
    /\ CheckedRule("overflowing-text") /\ probe.output.found
    /\ probe.node.class = "TextNode" /\ Higher /\ Wider
    /\ probe.output.issue.severity = "error"

\* the name contains a keyword, whatever the case of its letters
NameMatches(name) ==
    \E k \in DOMAIN name : KeywordsWithin(name[k].text) \cap interactiveKeywords # {}

\* the width and the height of the node that are numbers
NumericSides(node) ==
    {parseDimension(v).n : v \in {d \in {node.width, node.height} : Parses(d, "number")}}

Smallest(S) == CHOOSE m \in S : \A x \in S : m <= x

\* C26: small-tap-targets returns an issue exactly when the name of the node
\* contains an interactive keyword, in any case, and the smaller of its
\* width and height is below 44; the issue is a warning that can be fixed
\* automatically, its currentMinSize is that minimum and its deficit 44 minus
\* it. A node whose name has no keyword is never flagged.
C26_SmallTapTargets ==
    CheckedRule("small-tap-targets") =>
       LET out == probe.output
           sides == NumericSides(probe.node)
       IN  /\ out.found <=>
                 /\ NameMatches(probe.node.name)
                 /\ sides # {} /\ Smallest(sides) < 44
           /\ out.found =>
                 /\ out.issue.severity = "warning" /\ out.issue.canAutoFix
                 /\ out.currentMinSize = Smallest(sides)
                 /\ out.deficit = 44 - Smallest(sides)

\* "Submit Button", 100 wide and "30px" high, flagged with 30 and 14
C26_Witness ==
    /\ CheckedRule("small-tap-targets") /\ probe.output.found
    /\ probe.node.name = <<Word("submit", "Capital"), Word("button", "Capital")>>
    /\ probe.node.width = Num(100) /\ probe.node.height = Str(30, "px")
    /\ probe.output.currentMinSize = 30 /\ probe.output.deficit = 14

\* the sizing mode of a side: fixed, fill, or neither (hug)
Mode(value) ==
    IF Parses(value, "number") THEN "fixed" ELSE IF Parses(value, "fill") THEN "fill" ELSE "hug"

\* C27: unnecessary-nesting flags a frame only when it has exactly one child,
\* the child is a frame, and wrapper and child have the same width mode and
\* the same height mode (both fixed, both fill, or both neither).
C27_SameModesOnly ==
    (CheckedRule("unnecessary-nesting") /\ probe.output.found) =>
       /\ probe.node.class = "FrameNode"
       /\ Len(probe.kids) = 1 /\ probe.kids[1].class = "FrameNode"
       /\ Mode(probe.node.width) = Mode(probe.kids[1].width)
       /\ Mode(probe.node.height) = Mode(probe.kids[1].height)

====
